-------------------------- MODULE CommSessionProofs --------------------------
(***************************************************************************)
(* Proofs about CommSession for every number of file parts, every size of  *)
(* the buffers and links and whatever the hosts and the line do.           *)
(***************************************************************************)
EXTENDS CommSession, SequenceTheorems, WellFoundedInduction, TLAPS

\* A session whose user is logged on over its channel. An update keeps the
\* fields of a record that has them.
Owned(s) ==
  /\ {"ActiveChannel", "UserLoggedOn"} \subseteq DOMAIN s
  /\ s.UserLoggedOn => s.ActiveChannel # "NONE"

LEMMA ClearedOwned == ASSUME NEW s, Owned(s) PROVE Owned(Cleared(s))
  BY DEF Owned, Cleared

LEMMA AcceptedOwned ==
  ASSUME NEW s, Owned(s), NEW c \in Channels, NEW r
  PROVE  Owned(Accepted(s, c, r))
  BY DEF Owned, Accepted, Channels

\* No command leaves a user logged on over a session nobody owns.
LEMMA DispatchOwned ==
  ASSUME NEW s, Owned(s), NEW c \in Channels, NEW r
  PROVE  Owned(Dispatch(s, c, r).session)
  <1>1. Owned(ProcessLGN(s, c, r).session)
    BY DEF ProcessLGN, Result, Owned, Channels
  <1>2. Owned(ProcessGDT(s, r).session)
    BY DEF ProcessGDT, Result, Owned
  <1>3. Owned(ProcessGFI(s, r).session) /\ Owned(ProcessCFI(s, r).session)
    BY DEF ProcessGFI, ProcessCFI, Result, Owned
  <1>4. Owned(ProcessLOF(s, r).session)
    BY DEF ProcessLOF, Result, Owned
  <1>5. Owned(ProcessSEP(s, c, r).session)
    BY ClearedOwned DEF ProcessSEP, Result
  <1>6. \A reply : Owned(Result(s, reply).session)
    BY DEF Result
  <1>7. QED
    BY <1>1, <1>2, <1>3, <1>4, <1>5, <1>6 DEF Dispatch

LEMMA ProcessSentenceOwned ==
  ASSUME NEW s, Owned(s), NEW last, NEW c \in Channels, NEW m,
         NEW r \in ProcessSentence(s, last, c, m)
  PROVE  Owned(r.session)
  <1> DEFINE s0 == AfterPrefix(s, m)
  <1>1. Owned(s0)
    BY ClearedOwned DEF AfterPrefix
  <1>2. \A reply : Owned(Result(s0, reply).session)
    BY <1>1 DEF Result
  <1>3. ASSUME NEW x PROVE Owned(Answer(s0, last, c, x).session)
    <2>1. Owned(Dispatch(Accepted(s0, c, x), c, x).session)
      BY <1>1, AcceptedOwned, DispatchOwned
    <2>2. QED
      BY <1>2, <2>1 DEF Answer
  <1>4. QED
    BY <1>2, <1>3 DEF ProcessSentence

LEMMA NextOwned == Owned(session) /\ [Next]_vars => Owned(session')
  <1> SUFFICES ASSUME Owned(session), [Next]_vars
               PROVE  Owned(session')
    OBVIOUS
  <1>1. ASSUME NEW c \in Channels, NEW m, NEW buffer, Process(c, m, buffer)
        PROVE  Owned(session')
    BY <1>1, ProcessSentenceOwned DEF Process
  <1>2. CASE MainLoop
    <2>1. CASE ReadUART
      BY <2>1, <1>1 DEF ReadUART, Channels
    <2>2. CASE ReadTcp
      BY <2>2, <1>1 DEF ReadTcp, Channels
    <2>3. CASE AcceptTcp
      BY <2>3, ClearedOwned DEF AcceptTcp
    <2>4. CASE IdleUART \/ IdleTcp \/ NoConnection
      BY <2>4 DEF IdleUART, IdleTcp, NoConnection, devVars
    <2>5. QED
      BY <1>2, <2>1, <2>2, <2>3, <2>4 DEF MainLoop, ExchangeUARTData, ExchangeTcpData
  <1>3. CASE KeepAlive \/ Lose \/ Garble \/ HostConnect \/ HostDisconnect
    BY <1>3 DEF KeepAlive, Lose, Garble, HostConnect, HostDisconnect, devVars
  <1>4. ASSUME NEW c \in Hosts, Host(c) PROVE Owned(session')
    BY <1>4 DEF Host, HostStart, HostSend, HostReceive, HostGiveUp, devVars
  <1>5. CASE UNCHANGED vars
    BY <1>5 DEF vars, devVars
  <1>6. QED
    BY <1>2, <1>3, <1>4, <1>5 DEF Next, Controller

\* A user is logged on only over a channel that owns the session: no order of
\* logins, log-offs, device type requests and new connections, of garbled or
\* unreadable sentences leaves a logged-on user behind for the next channel.
THEOREM LoginOwned == Spec => []SessionOwned
  <1>1. Init => Owned(session)
    BY DEF Init, InitSession, Owned
  <1>2. Owned(session) /\ [Next]_vars => Owned(session)'
    BY NextOwned
  <1>3. Owned(session) => SessionOwned
    BY DEF Owned, SessionOwned
  <1>4. QED
    BY <1>1, <1>2, <1>3, PTL DEF Spec

-----------------------------------------------------------------------------
(* Induction along a sequence.                                               *)

LEMMA LessThan == IsWellFoundedOn({ss \in Nat \X Nat : ss[1] < ss[2]}, Nat)
  BY NatLessThanWellFounded, Zenon DEF OpToRel

\* A set of numbers with 0 and the successors up to n of its members has n.
LEMMA UpTo ==
  ASSUME NEW n \in Nat, NEW S, 0 \in S, \A i \in 0..n : i \in S /\ i < n => i + 1 \in S
  PROVE  \A i \in 0..n : i \in S
  <1> DEFINE missing == {i \in 0..n : i \notin S}
  <1>1. SUFFICES ASSUME missing # {} PROVE FALSE
    OBVIOUS
  <1>2. PICK R : R = {ss \in Nat \X Nat : ss[1] < ss[2]}
    OBVIOUS
  <1>3. missing \subseteq Nat
    OBVIOUS
  <1>4. PICK x \in missing : \A y \in missing : ~ (<<y, x>> \in R)
    BY <1>1, <1>2, <1>3, LessThan, WFMin
  <1>5. x \in 1..n /\ x - 1 \in 0..n /\ x - 1 < n /\ x - 1 + 1 = x
    BY <1>4
  <1>6. x - 1 \notin missing
    <2>1. <<x - 1, x>> \in R
      BY <1>2, <1>5
    <2>2. QED
      BY <1>4, <2>1
  <1>7. QED
    BY <1>4, <1>5, <1>6

\* The function Readable is defined with exists, and what it makes of data.
LEMMA ReadableUpTo ==
  ASSUME NEW T, NEW data \in Seq(T)
  PROVE  \E upTo :
           /\ Readable(data) = upTo[Len(data)]
           /\ upTo[0] = <<>>
           /\ \A i \in 1..Len(data) :
                upTo[i] = IF data[i].kind = Space.kind THEN upTo[i - 1] ELSE Append(upTo[i - 1], data[i])
  <1> DEFINE n == Len(data)
             next(before, i) == IF data[i].kind = Space.kind THEN before ELSE Append(before, data[i])
             Is(f, m) == f = [i \in 0..m |-> IF i = 0 THEN <<>> ELSE next(f[i - 1], i)]
             Up == {m \in 0..n : \E f : Is(f, m)}
  <1>1. n \in Nat
    OBVIOUS
  <1> HIDE DEF n, next
  <1>2. 0 \in Up
    <2> DEFINE e == [i \in 0..0 |-> <<>>]
    <2>1. \A i \in 0..0 : e[i] = IF i = 0 THEN <<>> ELSE next(e[i - 1], i)
      OBVIOUS
    <2>2. e = [i \in 0..0 |-> e[i]]
      OBVIOUS
    <2> HIDE DEF e
    <2>3. Is(e, 0)
      BY <2>1, <2>2
    <2>4. QED
      BY <2>3, <1>1
  <1>3. ASSUME NEW m \in 0..n, m \in Up, m < n
        PROVE  m + 1 \in Up
    <2>1. PICK f : Is(f, m)
      BY <1>3
    <2> DEFINE g == [i \in 0..(m + 1) |-> IF i = m + 1 THEN next(f[m], m + 1) ELSE f[i]]
    <2>2. Is(g, m + 1)
      <3>1. \A i \in 1..m : g[i] = next(g[i - 1], i)
        BY <2>1, <1>1
      <3>2. g[m + 1] = next(g[m], m + 1) /\ g[0] = <<>>
        BY <2>1, <1>1
      <3>3. \A i \in 0..(m + 1) : i = 0 \/ i \in 1..m \/ i = m + 1
        BY <1>1
      <3> HIDE DEF g
      <3>4. \A i \in 0..(m + 1) : g[i] = IF i = 0 THEN <<>> ELSE next(g[i - 1], i)
        BY <3>1, <3>2, <3>3
      <3>5. g = [i \in 0..(m + 1) |-> g[i]]
        BY DEF g
      <3>6. QED
        BY <3>4, <3>5
    <2>3. m + 1 \in 0..n
      BY <1>1, <1>3
    <2> HIDE DEF g
    <2>4. QED
      BY <2>2, <2>3
  <1>4. n \in Up
    <2> HIDE DEF Up
    <2>1. \A m \in 0..n : m \in Up
      BY <1>1, <1>2, <1>3, UpTo
    <2>2. QED
      BY <1>1, <2>1
  <1> DEFINE upTo == CHOOSE f : Is(f, n)
  <1>5. Is(upTo, n)
    BY <1>4
  <1>6. Readable(data) = upTo[n]
    BY DEF Readable, n, next
  <1> HIDE DEF upTo
  <1>7. /\ upTo[0] = <<>>
        /\ \A i \in 1..n : upTo[i] = next(upTo[i - 1], i)
    BY <1>1, <1>5
  <1>8. QED
    BY <1>6, <1>7 DEF n, next

\* And each of its values is a sequence of responses.
LEMMA ReadableSteps ==
  ASSUME NEW data \in Seq(Responses \cup {Space})
  PROVE  \E upTo :
           /\ Readable(data) = upTo[Len(data)]
           /\ upTo[0] = <<>>
           /\ \A i \in 0..Len(data) : upTo[i] \in Seq(Responses)
           /\ \A i \in 1..Len(data) :
                upTo[i] = IF data[i].kind = Space.kind THEN upTo[i - 1] ELSE Append(upTo[i - 1], data[i])
  <1> DEFINE n == Len(data)
  <1>1. PICK upTo :
          /\ Readable(data) = upTo[n]
          /\ upTo[0] = <<>>
          /\ \A i \in 1..n :
               upTo[i] = IF data[i].kind = Space.kind THEN upTo[i - 1] ELSE Append(upTo[i - 1], data[i])
    BY ReadableUpTo
  <1> DEFINE S == {i \in 0..n : upTo[i] \in Seq(Responses)}
  <1>2. n \in Nat
    OBVIOUS
  <1>3. 0 \in S
    <2>1. <<>> \in Seq(Responses) /\ 0 \in 0..n
      BY <1>2
    <2>2. QED
      BY <1>1, <2>1
  <1>4. ASSUME NEW i \in 0..n, i \in S, i < n
        PROVE  i + 1 \in S
    <2>1. i + 1 \in 1..n /\ i + 1 - 1 = i
      BY <1>2, <1>4
    <2>2. data[i + 1] \in Responses \cup {Space}
      BY <2>1
    <2>3. data[i + 1].kind # Space.kind => data[i + 1] \in Responses
      BY <2>2
    <2>4. upTo[i + 1] \in Seq(Responses)
      <3>1. upTo[i] \in Seq(Responses)
        BY <1>4
      <3>2. upTo[i + 1] = IF data[i + 1].kind = Space.kind THEN upTo[i] ELSE Append(upTo[i], data[i + 1])
        <4> HIDE DEF n
        <4>1. QED
          BY <1>1, <2>1
      <3>3. data[i + 1] \in Responses => Append(upTo[i], data[i + 1]) \in Seq(Responses)
        BY <3>1, AppendProperties
      <3>4. QED
        BY <2>3, <3>1, <3>2, <3>3
    <2>5. QED
      BY <2>1, <2>4
  <1>5. \A i \in 0..n : i \in S
    <2> HIDE DEF S, n
    <2>1. QED
      BY <1>2, <1>3, <1>4, UpTo
  <1>6. \A i \in 0..n : upTo[i] \in Seq(Responses)
    BY <1>5
  <1>7. QED
    BY <1>1, <1>6

LEMMA ReadableTyped ==
  ASSUME NEW data \in Seq(Responses \cup {Space})
  PROVE  Readable(data) \in Seq(Responses)
  <1>1. Len(data) \in 0..Len(data)
    OBVIOUS
  <1>2. QED
    BY <1>1, ReadableSteps

\* A response passes, and nothing remains nothing.
LEMMA ReadableShort ==
  /\ Readable(<<>>) = <<>>
  /\ \A r \in Responses : Readable(<<r>>) = <<r>>
  <1>1. Readable(<<>>) = <<>>
    <2>1. <<>> \in Seq(Responses) /\ Len(<<>>) = 0
      OBVIOUS
    <2>2. QED
      BY <2>1, ReadableUpTo
  <1>2. ASSUME NEW r \in Responses
        PROVE  Readable(<<r>>) = <<r>>
    <2>1. <<r>> \in Seq(Responses) /\ Len(<<r>>) = 1 /\ <<r>>[1] = r
      OBVIOUS
    <2>2. PICK upTo :
            /\ Readable(<<r>>) = upTo[1]
            /\ upTo[0] = <<>>
            /\ \A i \in 1..1 :
                 upTo[i] = IF <<r>>[i].kind = Space.kind THEN upTo[i - 1] ELSE Append(upTo[i - 1], <<r>>[i])
      BY <2>1, ReadableUpTo
    <2>3. r.kind # Space.kind
      BY DEF Responses, Kinds, Space
    <2>4. upTo[1] = Append(upTo[0], r)
      BY <2>1, <2>2, <2>3
    <2>5. QED
      BY <2>2, <2>4
  <1>3. QED
    BY <1>1, <1>2

\* What one write takes of the buffer, and what it leaves.
LEMMA TakenAndLeft ==
  ASSUME NEW T, NEW buffer \in Seq(T)
  PROVE  /\ Taken(buffer) \in Seq(T) /\ Left(buffer) \in Seq(T)
         /\ Len(Left(buffer)) <= Len(buffer)
         /\ Len(buffer) <= 1 => Taken(buffer) = buffer /\ Left(buffer) = <<>>
  <1> DEFINE k == IF Len(buffer) < WriteSize THEN Len(buffer) ELSE WriteSize
  <1>1. WriteSize \in Nat \ {0}
    BY SessionAssumption
  <1>2. k \in 0..Len(buffer) /\ Len(buffer) \in Nat
    BY <1>1
  <1>3. /\ Taken(buffer) = SubSeq(buffer, 1, k)
        /\ Left(buffer) = SubSeq(buffer, Len(Taken(buffer)) + 1, Len(buffer))
    BY DEF Taken, Left
  <1> HIDE DEF k
  <1>4. Taken(buffer) \in Seq(T) /\ Len(Taken(buffer)) = k
    BY <1>2, <1>3
  <1>5. Left(buffer) \in Seq(T) /\ Len(Left(buffer)) = Len(buffer) - k
    BY <1>2, <1>3, <1>4
  <1>6. ASSUME Len(buffer) <= 1
        PROVE  Taken(buffer) = buffer /\ Left(buffer) = <<>>
    <2>1. k = Len(buffer)
      BY <1>1, <1>2, <1>6 DEF k
    <2>2. SubSeq(buffer, 1, Len(buffer)) = buffer
      BY SubSeqFull
    <2>3. Left(buffer) = <<>>
      <3>1. Left(buffer) \in Seq(T) /\ Len(Left(buffer)) = 0
        BY <1>2, <1>5, <2>1
      <3>2. QED
        BY <3>1, EmptySeq
    <2>4. QED
      BY <1>3, <2>1, <2>2, <2>3
  <1>7. QED
    BY <1>2, <1>4, <1>5, <1>6

-----------------------------------------------------------------------------
(* Types.                                                                    *)

\* The requests on the way, those for a login with a password.
Requests == {m \in Sentences : m.tag = "LGN" => m.arg \in Passwords}

IsReply(reply) == reply \in Seq(Responses) /\ Len(reply) <= 1

Bytes == Responses \cup {Space}

Steps == {"off", "GDT", "LGN", "GFI", "CFI", "SEP"}

\* The types of the controller, the lines, the hosts and the loop.
DeviceTyped ==
  /\ session \in Sessions
  /\ IsReply(LastSentSentence)
  /\ OutgoingBuffer \in [Channels -> Seq(Bytes)]
  /\ \A c \in Channels : Len(OutgoingBuffer[c]) <= BufSize
  /\ IncommingBufferLength \in [Channels -> 0..(LengthMod - 1)]

LinesTyped ==
  /\ toDev \in [Channels -> Seq(Requests)]
  /\ toHost \in [Channels -> Seq(Responses)]

HostsTyped ==
  /\ hostStep \in [Channels -> Steps]
  /\ hostArg \in [Channels -> Args]
  /\ \A c \in Channels : hostStep[c] = "LGN" => hostArg[c] \in Passwords
  /\ hostNum \in [Channels -> 0..MaxNum]
  /\ hostEnc \in [Channels -> BOOLEAN]
  /\ got \in [Channels -> Seq(0..NChunks)]

LoopTyped ==
  /\ turn \in {"tcp", "uart"}
  /\ tcpSocketFd \in {"none", "live", "dead"} /\ backlog \in BOOLEAN

TypeInv == DeviceTyped /\ LinesTyped /\ HostsTyped /\ LoopTyped

ResultTyped(r) == r.session \in Sessions /\ IsReply(r.reply) /\ r.emptied \in BOOLEAN

LEMMA ReplyTyped ==
  ASSUME NEW s \in Sessions, NEW n \in 0..MaxNum
  PROVE  /\ \A kind \in Kinds : IsReply(Reply(s, kind, n))
         /\ \A chunk \in 0..NChunks : IsReply(Part(s, n, chunk))
  BY ProtocolAssumption DEF Sessions, IsReply, Reply, Part, Responses, Kinds

LEMMA ResultsTyped ==
  ASSUME NEW s \in Sessions, NEW reply, IsReply(reply)
  PROVE  ResultTyped(Result(s, reply))
  BY DEF ResultTyped, Result

LEMMA ClearedTyped == ASSUME NEW s \in Sessions PROVE Cleared(s) \in Sessions
  BY DEF Sessions, Cleared

LEMMA AcceptedTyped ==
  ASSUME NEW s \in Sessions, NEW c \in Channels, NEW r \in Requests
  PROVE  Accepted(s, c, r) \in Sessions
  <1>1. r.num + 1 \in 0..(MaxNum + 1)
    BY ProtocolAssumption DEF Requests, Sentences
  <1>2. QED
    BY <1>1 DEF Sessions, Accepted

LEMMA LoginTyped ==
  ASSUME NEW s \in Sessions, NEW level \in 0..2, NEW on \in BOOLEAN, NEW c \in Channels \cup {"NONE"}
  PROVE  [s EXCEPT !.UserLevel = level, !.UserLoggedOn = on, !.ActiveChannel = c] \in Sessions
  <1> DEFINE t == [s EXCEPT !.UserLevel = level]
  <1>1. t \in Sessions
    BY DEF Sessions
  <1> HIDE DEF t
  <1>2. [t EXCEPT !.UserLoggedOn = on, !.ActiveChannel = c] \in Sessions
    BY <1>1 DEF Sessions
  <1>3. QED
    BY <1>2 DEF t

LEMMA DispatchTyped ==
  ASSUME NEW s \in Sessions, NEW c \in Channels, NEW r \in Requests
  PROVE  ResultTyped(Dispatch(s, c, r))
  <1>1. r.num \in 0..MaxNum /\ r.arg \in Args /\ r.tag \in Tags /\ IsReply(<<>>)
    BY DEF Requests, Sentences, IsReply
  <1>2. ASSUME r.tag = "LGN" PROVE ResultTyped(ProcessLGN(s, c, r))
    <2>1. r.arg \in Passwords
      BY <1>2 DEF Requests
    <2>2. r.arg \notin {"missing", "wrong"} => Levels[r.arg] \in 0..2
      BY <2>1 DEF Passwords, Levels
    <2>3. /\ [s EXCEPT !.UserLevel = 2] \in Sessions
          /\ [s EXCEPT !.UserLevel = 2, !.UserLoggedOn = FALSE, !.ActiveChannel = "NONE"] \in Sessions
          /\ r.arg \notin {"missing", "wrong"} =>
               [s EXCEPT !.UserLevel = Levels[r.arg], !.UserLoggedOn = TRUE, !.ActiveChannel = c] \in Sessions
      <3>1. [s EXCEPT !.UserLevel = 2] \in Sessions
        BY DEF Sessions
      <3>2. [s EXCEPT !.UserLevel = 2, !.UserLoggedOn = FALSE, !.ActiveChannel = "NONE"] \in Sessions
        <4>1. 2 \in 0..2 /\ "NONE" \in Channels \cup {"NONE"}
          OBVIOUS
        <4>2. QED
          BY ONLY s \in Sessions, <4>1, LoginTyped
      <3>3. ASSUME r.arg \notin {"missing", "wrong"}
            PROVE  [s EXCEPT !.UserLevel = Levels[r.arg], !.UserLoggedOn = TRUE, !.ActiveChannel = c] \in Sessions
        <4>1. Levels[r.arg] \in 0..2
          BY <2>2, <3>3
        <4>2. QED
          BY <4>1, LoginTyped
      <3>4. QED
        BY <3>1, <3>2, <3>3
    <2>4. IsReply(Reply(s, "LGF", r.num)) /\ IsReply(Reply(s, "EOK", r.num))
      BY <1>1, ReplyTyped DEF Kinds
    <2>5. QED
      BY <1>1, <2>3, <2>4, ResultsTyped DEF ProcessLGN
  <1>3. ResultTyped(ProcessGDT(s, r))
    <2>1. [s EXCEPT !.UseEncryption = TRUE] \in Sessions
      BY DEF Sessions
    <2>2. IsReply(Reply(s, "DTY with key", r.num)) /\ IsReply(Reply(s, "DTY", r.num))
      BY <1>1, ReplyTyped DEF Kinds
    <2>3. QED
      BY <2>1, <2>2, ResultsTyped DEF ProcessGDT
  <1>4. ResultTyped(ProcessGFI(s, r))
    <2>1. [s EXCEPT !.CrntFileTransferPos = 1] \in Sessions /\ 1 \in 0..NChunks
      BY ProtocolAssumption DEF Sessions
    <2>2. QED
      BY <1>1, <2>1, ReplyTyped, ResultsTyped DEF ProcessGFI
  <1>5. ResultTyped(ProcessCFI(s, r))
    <2>1. CASE s.CrntFileTransferPos < NChunks
      <3>1. /\ [s EXCEPT !.CrntFileTransferPos = @ + 1] \in Sessions
            /\ s.CrntFileTransferPos + 1 \in 0..NChunks
        BY <2>1, ProtocolAssumption DEF Sessions
      <3>2. QED
        BY <1>1, <2>1, <3>1, ReplyTyped, ResultsTyped DEF ProcessCFI
    <2>2. CASE ~(s.CrntFileTransferPos < NChunks)
      <3>1. 0 \in 0..NChunks
        BY ProtocolAssumption
      <3>2. QED
        BY <1>1, <2>2, <3>1, ReplyTyped, ResultsTyped DEF ProcessCFI
    <2>3. QED
      BY <2>1, <2>2
  <1>6. ResultTyped(ProcessLOF(s, r))
    <2>1. [s EXCEPT !.UserLoggedOn = FALSE, !.ActiveChannel = "NONE"] \in Sessions
      BY DEF Sessions
    <2>2. IsReply(Reply(s, "EOK", r.num))
      BY <1>1, ReplyTyped DEF Kinds
    <2>3. QED
      BY <2>1, <2>2, ResultsTyped DEF ProcessLOF
  <1>7. ResultTyped(ProcessSEP(s, c, r))
    <2>1. Cleared(s) \in Sessions
      BY ClearedTyped
    <2>2. IsReply(Reply(s, "EOK", r.num)) /\ IsReply(Reply(Cleared(s), "EOK", r.num))
      BY <1>1, <2>1, ReplyTyped DEF Kinds
    <2>3. QED
      BY <2>1, <2>2, ResultsTyped DEF ProcessSEP, ResultTyped
  <1>8. ResultTyped(Result(s, <<>>)) /\ ResultTyped(Result(s, Reply(s, "NTL", r.num)))
    BY <1>1, ReplyTyped, ResultsTyped DEF Kinds
  <1>9. QED
    BY <1>2, <1>3, <1>4, <1>5, <1>6, <1>7, <1>8 DEF Dispatch

LEMMA ProcessSentenceTyped ==
  ASSUME NEW s \in Sessions, NEW last, IsReply(last), NEW c \in Channels, NEW m \in Requests,
         NEW r \in ProcessSentence(s, last, c, m)
  PROVE  ResultTyped(r)
  <1> DEFINE s0 == AfterPrefix(s, m)
  <1>1. s0 \in Sessions
    BY ClearedTyped DEF AfterPrefix
  <1>2. ResultTyped(Result(s0, <<>>))
    <2>1. IsReply(<<>>)
      BY DEF IsReply
    <2>2. QED
      BY <1>1, <2>1, ResultsTyped
  <1>3. \A x \in Readings(s0, m) : x \in Requests
    <2>1. ASSUME NEW n \in 0..MaxNum PROVE Unreadable(n) \in Requests
      BY DEF Unreadable, Requests, Sentences, Tags, Args
    <2>2. QED
      BY <2>1 DEF Readings
  <1> HIDE DEF s0
  <1>4. ASSUME NEW x \in Requests PROVE ResultTyped(Answer(s0, last, c, x))
    <2>1. x.num \in 0..MaxNum
      BY DEF Requests, Sentences
    <2>2. ResultTyped(Dispatch(Accepted(s0, c, x), c, x))
      BY <1>1, AcceptedTyped, DispatchTyped
    <2>3. ResultTyped(Result(s0, Reply(s0, "CHK", x.num))) /\ ResultTyped(Result(s0, Reply(s0, "ALC", x.num)))
      BY <1>1, <2>1, ReplyTyped, ResultsTyped DEF Kinds
    <2>4. ResultTyped(Result(s0, last))
      BY <1>1, ResultsTyped
    <2>5. QED
      BY <2>2, <2>3, <2>4 DEF Answer
  <1>5. QED
    BY <1>2, <1>3, <1>4 DEF ProcessSentence, s0
LEMMA AppendedTyped ==
  ASSUME NEW kept \in Seq(Bytes), Len(kept) <= BufSize, NEW reply, IsReply(reply)
  PROVE  Appended(kept, reply) \in Seq(Bytes) /\ Len(Appended(kept, reply)) <= BufSize
  <1>1. reply \in Seq(Bytes)
    BY DEF IsReply, Bytes
  <1>2. kept \o reply \in Seq(Bytes) /\ Len(kept \o reply) = Len(kept) + Len(reply)
    BY <1>1
  <1>3. QED
    BY <1>2 DEF Appended, Fits

LEMMA ModTyped == ASSUME NEW n \in Nat PROVE n % LengthMod \in 0..(LengthMod - 1)
  BY SessionAssumption

LEMMA ProcessTyped ==
  ASSUME TypeInv, NEW c \in Channels, NEW m \in Requests, NEW buffer, Process(c, m, buffer)
  PROVE  /\ session' \in Sessions /\ IsReply(LastSentSentence')
         /\ IncommingBufferLength' \in [Channels -> 0..(LengthMod - 1)]
         /\ buffer \in Seq(Bytes) /\ Len(buffer) <= BufSize
  <1>0. 0 \in 0..(LengthMod - 1) /\ 1 \in Nat
    BY SessionAssumption
  <1>1. CASE Length(c) = 0
    BY <1>0, <1>1 DEF Process, TypeInv, DeviceTyped, Bytes
  <1>2. CASE Length(c) # 0
    <2>1. PICK r \in ProcessSentence(session, LastSentSentence, c, m) :
            LET kept == IF r.emptied THEN <<>> ELSE OutgoingBuffer[c] IN
            /\ session' = r.session
            /\ buffer = Appended(kept, r.reply)
            /\ LastSentSentence' = Stored(kept, r.reply)
            /\ IncommingBufferLength' =
                 [IncommingBufferLength EXCEPT
                    ![c] = ((IF r.emptied THEN 0 ELSE Length(c)) + LengthMod - 1) % LengthMod]
      BY <1>2 DEF Process
    <2>2. ResultTyped(r)
      BY ProcessSentenceTyped DEF TypeInv, DeviceTyped
    <2> DEFINE kept == IF r.emptied THEN <<>> ELSE OutgoingBuffer[c]
               left == (IF r.emptied THEN 0 ELSE Length(c)) + LengthMod - 1
    <2>3. kept \in Seq(Bytes) /\ Len(kept) <= BufSize
      BY SessionAssumption DEF TypeInv, DeviceTyped
    <2>4. IsReply(r.reply) /\ r.session \in Sessions
      BY <2>2 DEF ResultTyped
    <2>5. buffer \in Seq(Bytes) /\ Len(buffer) <= BufSize
      <3>1. buffer = Appended(kept, r.reply)
        BY <2>1
      <3> HIDE DEF kept
      <3>2. QED
        BY <2>3, <2>4, <3>1, AppendedTyped
    <2>6. IsReply(LastSentSentence')
      BY <2>1, <2>4 DEF Stored, TypeInv, DeviceTyped
    <2>7. left % LengthMod \in 0..(LengthMod - 1)
      <3>1. Length(c) \in Nat
        <4>1. IncommingBufferLength[c] + 1 \in Nat
          BY DEF TypeInv, DeviceTyped
        <4>2. (IncommingBufferLength[c] + 1) % LengthMod \in Nat
          BY <4>1, ModTyped, SessionAssumption
        <4>3. QED
          BY <4>2 DEF Length
      <3>2. left \in Nat
        BY <3>1, SessionAssumption
      <3> HIDE DEF left
      <3>3. QED
        BY <3>2, ModTyped
    <2>8. IncommingBufferLength' \in [Channels -> 0..(LengthMod - 1)]
      <3>1. IncommingBufferLength' = [IncommingBufferLength EXCEPT ![c] = left % LengthMod]
        BY <2>1
      <3> HIDE DEF left
      <3>2. QED
        BY <2>7, <3>1 DEF TypeInv, DeviceTyped
    <2>9. QED
      BY <2>1, <2>4, <2>5, <2>6, <2>8
  <1>3. QED
    BY <1>1, <1>2

\* What is written of a buffer are responses and the keep-alive bytes.
LEMMA WrittenTyped ==
  ASSUME NEW buffer \in Seq(Bytes), Len(buffer) <= BufSize
  PROVE  /\ Readable(Taken(buffer)) \in Seq(Responses)
         /\ Left(buffer) \in Seq(Bytes) /\ Len(Left(buffer)) <= BufSize
  <1>1. /\ Taken(buffer) \in Seq(Bytes) /\ Left(buffer) \in Seq(Bytes)
        /\ Len(Left(buffer)) <= Len(buffer)
    BY TakenAndLeft
  <1>2. Readable(Taken(buffer)) \in Seq(Responses)
    BY <1>1, ReadableTyped DEF Bytes
  <1>3. Len(Left(buffer)) \in Nat /\ Len(buffer) \in Nat /\ BufSize \in Nat
    BY <1>1, SessionAssumption
  <1>4. QED
    BY <1>1, <1>2, <1>3

LEMMA BufferTyped ==
  ASSUME TypeInv, NEW c \in Channels, NEW buffer \in Seq(Bytes), Len(buffer) <= BufSize,
         OutgoingBuffer' = [OutgoingBuffer EXCEPT ![c] = buffer]
  PROVE  /\ OutgoingBuffer' \in [Channels -> Seq(Bytes)]
         /\ \A d \in Channels : Len(OutgoingBuffer'[d]) <= BufSize
  <1>1. OutgoingBuffer \in [Channels -> Seq(Bytes)]
    BY DEF TypeInv, DeviceTyped
  <1>2. OutgoingBuffer' \in [Channels -> Seq(Bytes)]
    BY <1>1
  <1>3. ASSUME NEW d \in Channels PROVE Len(OutgoingBuffer'[d]) <= BufSize
    BY <1>1 DEF TypeInv, DeviceTyped
  <1>4. QED
    BY <1>2, <1>3

LEMMA ToDevTyped ==
  ASSUME TypeInv, NEW c \in Channels, NEW line \in Seq(Requests),
         toDev' = [toDev EXCEPT ![c] = line]
  PROVE  toDev' \in [Channels -> Seq(Requests)]
  BY DEF TypeInv, LinesTyped

LEMMA ToHostTyped ==
  ASSUME TypeInv, NEW c \in Channels, NEW line \in Seq(Responses),
         toHost' = [toHost EXCEPT ![c] = line]
  PROVE  toHost' \in [Channels -> Seq(Responses)]
  BY DEF TypeInv, LinesTyped

LEMMA LastOfLines ==
  ASSUME TypeInv, NEW c \in Channels
  PROVE  /\ toDev[c] \in Seq(Requests) /\ toHost[c] \in Seq(Responses)
         /\ toDev[c] # <<>> => Head(toDev[c]) \in Requests /\ Tail(toDev[c]) \in Seq(Requests)
         /\ toHost[c] # <<>> => Head(toHost[c]) \in Responses /\ Tail(toHost[c]) \in Seq(Responses)
         /\ \A n \in 1..Len(toDev[c]) : SubSeq(toDev[c], n + 1, Len(toDev[c])) \in Seq(Requests)
         /\ OutgoingBuffer[c] \in Seq(Bytes) /\ Len(OutgoingBuffer[c]) <= BufSize
  <1>1. toDev[c] \in Seq(Requests) /\ toHost[c] \in Seq(Responses)
    BY DEF TypeInv, LinesTyped
  <1>2. toDev[c] # <<>> => Head(toDev[c]) \in Requests /\ Tail(toDev[c]) \in Seq(Requests)
    BY <1>1, HeadTailProperties
  <1>3. toHost[c] # <<>> => Head(toHost[c]) \in Responses /\ Tail(toHost[c]) \in Seq(Responses)
    BY <1>1, HeadTailProperties
  <1>4. \A n \in 1..Len(toDev[c]) : SubSeq(toDev[c], n + 1, Len(toDev[c])) \in Seq(Requests)
    BY <1>1
  <1>5. OutgoingBuffer[c] \in Seq(Bytes) /\ Len(OutgoingBuffer[c]) <= BufSize
    BY DEF TypeInv, DeviceTyped
  <1>6. QED
    BY <1>1, <1>2, <1>3, <1>4, <1>5
\* The output of an exchange: what a channel's buffer keeps and the line gets.
LEMMA OutputTyped ==
  ASSUME TypeInv, NEW c \in Channels, NEW buffer \in Seq(Bytes), Len(buffer) <= BufSize,
         OutgoingBuffer' = [OutgoingBuffer EXCEPT ![c] = Left(buffer)]
  PROVE  /\ OutgoingBuffer' \in [Channels -> Seq(Bytes)]
         /\ \A d \in Channels : Len(OutgoingBuffer'[d]) <= BufSize
         /\ toHost[c] \o Readable(Taken(buffer)) \in Seq(Responses)
  <1>1. /\ Readable(Taken(buffer)) \in Seq(Responses)
        /\ Left(buffer) \in Seq(Bytes) /\ Len(Left(buffer)) <= BufSize
    BY WrittenTyped
  <1>2. toHost[c] \o Readable(Taken(buffer)) \in Seq(Responses)
    BY <1>1, LastOfLines
  <1>3. QED
    BY <1>1, <1>2, BufferTyped

LEMMA SerialTyped ==
  ASSUME TypeInv, ExchangeUARTData
  PROVE  TypeInv'
  <1> DEFINE c == "SERIAL_A"
  <1>1. c \in Channels
    BY DEF Channels
  <1>2. turn' = "tcp" /\ UNCHANGED <<tcpVars, hostVars>>
    BY DEF ExchangeUARTData, ReadUART, IdleUART
  <1>3. HostsTyped' /\ LoopTyped'
    BY <1>2 DEF TypeInv, HostsTyped, LoopTyped, tcpVars, hostVars
  <1>4. CASE ReadUART
    <2>1. PICK buffer :
            /\ Process(c, Head(toDev[c]), buffer)
            /\ OutgoingBuffer' = [OutgoingBuffer EXCEPT ![c] = Left(buffer)]
            /\ toHost' = [toHost EXCEPT ![c] = @ \o Readable(Taken(buffer))]
      BY <1>4 DEF ReadUART
    <2>2. toDev[c] # <<>> /\ toDev' = [toDev EXCEPT ![c] = Tail(@)]
      BY <1>4 DEF ReadUART
    <2> HIDE DEF c
    <2>3. Head(toDev[c]) \in Requests /\ Tail(toDev[c]) \in Seq(Requests)
      BY <1>1, <2>2, LastOfLines
    <2>4. /\ session' \in Sessions /\ IsReply(LastSentSentence')
          /\ IncommingBufferLength' \in [Channels -> 0..(LengthMod - 1)]
          /\ buffer \in Seq(Bytes) /\ Len(buffer) <= BufSize
      BY <1>1, <2>1, <2>3, ProcessTyped
    <2>5. /\ OutgoingBuffer' \in [Channels -> Seq(Bytes)]
          /\ \A d \in Channels : Len(OutgoingBuffer'[d]) <= BufSize
          /\ toHost[c] \o Readable(Taken(buffer)) \in Seq(Responses)
      BY <1>1, <2>1, <2>4, OutputTyped
    <2>6. toDev' \in [Channels -> Seq(Requests)]
      BY <1>1, <2>2, <2>3, ToDevTyped
    <2>7. toHost' \in [Channels -> Seq(Responses)]
      BY <1>1, <2>1, <2>5, ToHostTyped
    <2>8. QED
      BY <1>3, <2>4, <2>5, <2>6, <2>7 DEF TypeInv, DeviceTyped, LinesTyped
  <1>5. CASE IdleUART
    <2>1. /\ OutgoingBuffer' = [OutgoingBuffer EXCEPT ![c] = Left(OutgoingBuffer[c])]
          /\ toHost' = [toHost EXCEPT ![c] = @ \o Readable(Taken(OutgoingBuffer[c]))]
          /\ UNCHANGED <<session, LastSentSentence, IncommingBufferLength, toDev>>
      BY <1>5 DEF IdleUART
    <2> HIDE DEF c
    <2>2. /\ OutgoingBuffer' \in [Channels -> Seq(Bytes)]
          /\ \A d \in Channels : Len(OutgoingBuffer'[d]) <= BufSize
          /\ toHost[c] \o Readable(Taken(OutgoingBuffer[c])) \in Seq(Responses)
      BY <1>1, <2>1, LastOfLines, OutputTyped
    <2>3. toHost' \in [Channels -> Seq(Responses)]
      BY <1>1, <2>1, <2>2, ToHostTyped
    <2>4. QED
      BY <1>3, <2>1, <2>2, <2>3 DEF TypeInv, DeviceTyped, LinesTyped
  <1>6. QED
    BY <1>4, <1>5 DEF ExchangeUARTData

LEMMA TcpWriteTyped ==
  ASSUME TypeInv, NEW data, Readable(data) \in Seq(Responses), TcpWrite(data)
  PROVE  toHost' \in [Channels -> Seq(Responses)] /\ tcpSocketFd' \in {"none", "live", "dead"}
  <1> DEFINE c == "ETHERNET"
  <1>1. c \in Channels
    BY DEF Channels
  <1>2. CASE toHost' = [toHost EXCEPT ![c] = @ \o Readable(data)] /\ UNCHANGED tcpSocketFd
    <2> HIDE DEF c
    <2>1. toHost[c] \o Readable(data) \in Seq(Responses)
      BY <1>1, LastOfLines
    <2>2. toHost' \in [Channels -> Seq(Responses)]
      BY <1>1, <1>2, <2>1, ToHostTyped
    <2>3. QED
      BY <1>2, <2>2 DEF TypeInv, LoopTyped
  <1>3. CASE tcpSocketFd' \in {"dead", "none"} /\ UNCHANGED toHost
    BY <1>3 DEF TypeInv, LinesTyped
  <1>4. QED
    BY <1>2, <1>3 DEF TcpWrite

LEMMA TcpTyped ==
  ASSUME TypeInv, ExchangeTcpData
  PROVE  TypeInv'
  <1> DEFINE c == "ETHERNET"
  <1>1. c \in Channels
    BY DEF Channels
  <1>2. turn' = "uart" /\ UNCHANGED <<backlog, hostVars>>
    BY DEF ExchangeTcpData, ReadTcp, IdleTcp
  <1>3. HostsTyped' /\ turn' \in {"tcp", "uart"} /\ backlog' \in BOOLEAN
    BY <1>2 DEF TypeInv, HostsTyped, LoopTyped, hostVars
  <1>4. <<>> \in Seq(Requests)
    OBVIOUS
  <1>5. CASE ReadTcp
    <2>1. PICK buffer \in BuffersAfter(c, Head(toDev[c])), n \in 1..Len(toDev[c]) :
            /\ Process(c, Head(toDev[c]), buffer)
            /\ OutgoingBuffer' = [OutgoingBuffer EXCEPT ![c] = Left(buffer)]
            /\ TcpWrite(Taken(buffer))
            /\ toDev' = [toDev EXCEPT ![c] = IF tcpSocketFd' = "none" THEN <<>>
                                             ELSE SubSeq(@, n + 1, Len(@))]
      BY <1>5 DEF ReadTcp
    <2>2. toDev[c] # <<>>
      BY <1>5 DEF ReadTcp
    <2> HIDE DEF c
    <2>3. Head(toDev[c]) \in Requests /\ SubSeq(toDev[c], n + 1, Len(toDev[c])) \in Seq(Requests)
      BY <1>1, <2>2, LastOfLines
    <2>4. /\ session' \in Sessions /\ IsReply(LastSentSentence')
          /\ IncommingBufferLength' \in [Channels -> 0..(LengthMod - 1)]
          /\ buffer \in Seq(Bytes) /\ Len(buffer) <= BufSize
      BY <1>1, <2>1, <2>3, ProcessTyped
    <2>5. /\ OutgoingBuffer' \in [Channels -> Seq(Bytes)]
          /\ \A d \in Channels : Len(OutgoingBuffer'[d]) <= BufSize
      BY <1>1, <2>1, <2>4, OutputTyped
    <2>6. toHost' \in [Channels -> Seq(Responses)] /\ tcpSocketFd' \in {"none", "live", "dead"}
      BY <2>1, <2>4, WrittenTyped, TcpWriteTyped
    <2>7. toDev' \in [Channels -> Seq(Requests)]
      <3> DEFINE line == IF tcpSocketFd' = "none" THEN <<>> ELSE SubSeq(toDev[c], n + 1, Len(toDev[c]))
      <3>1. toDev' = [toDev EXCEPT ![c] = line] /\ line \in Seq(Requests)
        BY <1>4, <2>1, <2>3
      <3> HIDE DEF line
      <3>2. QED
        BY <1>1, <3>1, ToDevTyped
    <2>8. QED
      BY <1>3, <2>4, <2>5, <2>6, <2>7 DEF TypeInv, DeviceTyped, LinesTyped, LoopTyped
  <1>6. CASE IdleTcp
    <2>1. /\ OutgoingBuffer' = [OutgoingBuffer EXCEPT ![c] = Left(OutgoingBuffer[c])]
          /\ TcpWrite(Taken(OutgoingBuffer[c]))
          /\ toDev' = [toDev EXCEPT ![c] = IF tcpSocketFd' = "none" THEN <<>> ELSE toDev[c]]
          /\ UNCHANGED <<session, LastSentSentence, IncommingBufferLength>>
      BY <1>6 DEF IdleTcp
    <2> HIDE DEF c
    <2>2. /\ OutgoingBuffer' \in [Channels -> Seq(Bytes)]
          /\ \A d \in Channels : Len(OutgoingBuffer'[d]) <= BufSize
      BY <1>1, <2>1, LastOfLines, OutputTyped
    <2>3. toHost' \in [Channels -> Seq(Responses)] /\ tcpSocketFd' \in {"none", "live", "dead"}
      BY <1>1, <2>1, LastOfLines, WrittenTyped, TcpWriteTyped
    <2>4. toDev' \in [Channels -> Seq(Requests)]
      <3> DEFINE line == IF tcpSocketFd' = "none" THEN <<>> ELSE toDev[c]
      <3>1. toDev' = [toDev EXCEPT ![c] = line] /\ line \in Seq(Requests)
        BY <1>1, <1>4, <2>1, LastOfLines
      <3> HIDE DEF line
      <3>2. QED
        BY <1>1, <3>1, ToDevTyped
    <2>5. QED
      BY <1>3, <2>1, <2>2, <2>3, <2>4 DEF TypeInv, DeviceTyped, LinesTyped, LoopTyped
  <1>7. QED
    BY <1>5, <1>6 DEF ExchangeTcpData

LEMMA AcceptTyped ==
  ASSUME TypeInv, AcceptTcp
  PROVE  TypeInv'
  <1>1. "SERIAL_A" \in Channels /\ 0 \in 0..(LengthMod - 1) /\ <<>> \in Seq(Bytes) /\ IsReply(<<>>)
    BY SessionAssumption DEF Channels, IsReply
  <1>2. HostsTyped' /\ LinesTyped' /\ LoopTyped'
    BY DEF AcceptTcp, TypeInv, HostsTyped, LinesTyped, LoopTyped, hostVars
  <1>3. /\ OutgoingBuffer' \in [Channels -> Seq(Bytes)]
        /\ \A d \in Channels : Len(OutgoingBuffer'[d]) <= BufSize
    <2>1. OutgoingBuffer' = [OutgoingBuffer EXCEPT !["SERIAL_A"] = <<>>] /\ Len(<<>>) <= BufSize
      BY SessionAssumption DEF AcceptTcp
    <2>2. QED
      BY <1>1, <2>1, BufferTyped
  <1>4. IncommingBufferLength' \in [Channels -> 0..(LengthMod - 1)]
    BY <1>1 DEF AcceptTcp, TypeInv, DeviceTyped
  <1>5. session' \in Sessions /\ IsReply(LastSentSentence')
    BY <1>1, ClearedTyped DEF AcceptTcp, TypeInv, DeviceTyped
  <1>6. QED
    BY <1>2, <1>3, <1>4, <1>5 DEF TypeInv, DeviceTyped

LEMMA KeepAliveTyped ==
  ASSUME TypeInv, KeepAlive
  PROVE  TypeInv'
  <1> DEFINE c == "ETHERNET"
             buffer == Append(OutgoingBuffer[c], Space)
  <1>1. c \in Channels
    BY DEF Channels
  <1>2. OutgoingBuffer' = [OutgoingBuffer EXCEPT ![c] = buffer] /\ Len(OutgoingBuffer[c]) < BufSize
    BY DEF KeepAlive
  <1>3. buffer \in Seq(Bytes) /\ Len(buffer) <= BufSize
    <2>1. OutgoingBuffer[c] \in Seq(Bytes) /\ Space \in Bytes
      BY <1>1, LastOfLines DEF Bytes
    <2>2. Len(buffer) = Len(OutgoingBuffer[c]) + 1 /\ Len(OutgoingBuffer[c]) \in Nat
      BY <2>1
    <2>3. QED
      BY <1>2, <2>1, <2>2, SessionAssumption
  <1> HIDE DEF c, buffer
  <1>4. /\ OutgoingBuffer' \in [Channels -> Seq(Bytes)]
        /\ \A d \in Channels : Len(OutgoingBuffer'[d]) <= BufSize
    BY <1>1, <1>2, <1>3, BufferTyped
  <1>5. UNCHANGED <<turn, session, LastSentSentence, IncommingBufferLength, tcpVars, toDev, toHost, hostVars>>
    BY DEF KeepAlive
  <1>6. QED
    BY <1>4, <1>5 DEF TypeInv, DeviceTyped, LinesTyped, HostsTyped, LoopTyped, tcpVars, hostVars

LEMMA LineFaultTyped ==
  ASSUME TypeInv, Lose \/ Garble
  PROVE  TypeInv'
  <1> DEFINE c == "SERIAL_A"
  <1>1. c \in Channels
    BY DEF Channels
  <1>2. UNCHANGED <<turn, devVars, tcpVars, hostVars>>
    BY DEF Lose, Garble
  <1>3. DeviceTyped' /\ HostsTyped' /\ LoopTyped'
    BY <1>2 DEF TypeInv, DeviceTyped, HostsTyped, LoopTyped, devVars, tcpVars, hostVars
  <1>4. CASE Lose
    <2>1. \/ toDev[c] # <<>> /\ toDev' = [toDev EXCEPT ![c] = Tail(toDev[c])] /\ UNCHANGED toHost
          \/ toHost[c] # <<>> /\ toHost' = [toHost EXCEPT ![c] = Tail(toHost[c])] /\ UNCHANGED toDev
      BY <1>4 DEF Lose
    <2> HIDE DEF c
    <2>2. LinesTyped'
      BY <1>1, <2>1, LastOfLines, ToDevTyped, ToHostTyped DEF LinesTyped, TypeInv
    <2>3. QED
      BY <1>3, <2>2 DEF TypeInv
  <1>5. CASE Garble
    <2>1. PICK n \in 0..MaxNum :
            toDev' = [toDev EXCEPT ![c] = <<[Head(toDev[c]) EXCEPT !.num = n, !.ok = FALSE]>> \o Tail(toDev[c])]
      BY <1>5 DEF Garble
    <2>2. toDev[c] # <<>> /\ UNCHANGED toHost
      BY <1>5 DEF Garble
    <2> DEFINE m == [Head(toDev[c]) EXCEPT !.num = n, !.ok = FALSE]
    <2> HIDE DEF c
    <2>3. Head(toDev[c]) \in Requests /\ Tail(toDev[c]) \in Seq(Requests)
      BY <1>1, <2>2, LastOfLines
    <2>4. m \in Requests
      BY <2>3 DEF Requests, Sentences
    <2>5. toDev' = [toDev EXCEPT ![c] = <<m>> \o Tail(toDev[c])]
      BY <2>1
    <2> HIDE DEF m
    <2>6. <<m>> \o Tail(toDev[c]) \in Seq(Requests)
      BY <2>3, <2>4, ConcatProperties
    <2>7. toDev' \in [Channels -> Seq(Requests)]
      BY <1>1, <2>5, <2>6, ToDevTyped
    <2>8. QED
      BY <1>3, <2>2, <2>7 DEF TypeInv, LinesTyped
  <1>6. QED
    BY <1>4, <1>5

\* Steps a host turns to.
LEMMA MoveTyped ==
  ASSUME TypeInv, NEW c \in Channels, NEW step \in Steps, NEW n \in Nat, Move(c, step, n)
  PROVE  /\ hostStep' \in [Channels -> Steps] /\ hostNum' \in [Channels -> 0..MaxNum]
         /\ hostArg' \in [Channels -> Args]
         /\ \A d \in Channels : hostStep'[d] = "LGN" => hostArg'[d] \in Passwords
  <1>1. n \in 0..MaxNum
    BY ProtocolAssumption DEF Move
  <1>2. hostStep' = [hostStep EXCEPT ![c] = step] /\ hostNum' = [hostNum EXCEPT ![c] = n]
    BY DEF Move
  <1>3. PICK arg \in (CASE step = "GDT" -> Encryption [] step = "LGN" -> Logins [] OTHER -> {"none"}) :
          hostArg' = [hostArg EXCEPT ![c] = arg]
    BY DEF Move
  <1>4. arg \in Args /\ (step = "LGN" => arg \in Passwords)
    BY <1>3, SessionAssumption DEF Args
  <1>5. QED
    BY <1>1, <1>2, <1>3, <1>4 DEF TypeInv, HostsTyped, Steps
LEMMA HostStartTyped ==
  ASSUME TypeInv, NEW c \in Channels, HostStart(c)
  PROVE  TypeInv'
  <1>1. PICK step \in {"GDT", "LGN"} : Move(c, step, 1)
    BY DEF HostStart
  <1>2. step \in Steps /\ 1 \in Nat
    BY DEF Steps
  <1>3. /\ hostStep' \in [Channels -> Steps] /\ hostNum' \in [Channels -> 0..MaxNum]
        /\ hostArg' \in [Channels -> Args]
        /\ \A d \in Channels : hostStep'[d] = "LGN" => hostArg'[d] \in Passwords
    BY <1>1, <1>2, MoveTyped
  <1>4. hostEnc' \in [Channels -> BOOLEAN] /\ got' \in [Channels -> Seq(0..NChunks)]
    <2>1. <<>> \in Seq(0..NChunks)
      OBVIOUS
    <2>2. QED
      BY <2>1 DEF HostStart, TypeInv, HostsTyped
  <1>5. UNCHANGED <<turn, devVars, tcpVars, toDev, toHost>>
    BY DEF HostStart
  <1>6. QED
    BY <1>3, <1>4, <1>5 DEF TypeInv, DeviceTyped, LinesTyped, HostsTyped, LoopTyped, devVars, tcpVars

LEMMA SentenceTyped ==
  ASSUME TypeInv, NEW c \in Channels
  PROVE  /\ hostStep[c] # "off" => sentence(c) \in Requests
         /\ \A n \in 0..MaxNum : [sentence(c) EXCEPT !.tag = "LOF", !.num = n] \in Requests
  <1>1. /\ hostArg[c] \in Args /\ hostNum[c] \in 0..MaxNum /\ hostEnc[c] \in BOOLEAN
        /\ hostStep[c] # "off" => hostStep[c] \in Tags
        /\ hostStep[c] = "LGN" => hostArg[c] \in Passwords
    BY DEF TypeInv, HostsTyped, Steps, Tags
  <1>2. ASSUME hostStep[c] # "off" PROVE sentence(c) \in Requests
    BY <1>1, <1>2 DEF sentence, Requests, Sentences
  <1>3. ASSUME NEW n \in 0..MaxNum PROVE [sentence(c) EXCEPT !.tag = "LOF", !.num = n] \in Requests
    BY <1>1 DEF sentence, Requests, Sentences, Tags
  <1>4. QED
    BY <1>2, <1>3

LEMMA HostSendTyped ==
  ASSUME TypeInv, NEW c \in Channels, HostSend(c)
  PROVE  TypeInv'
  <1>1. toDev' = [toDev EXCEPT ![c] = Append(toDev[c], sentence(c))]
    BY DEF HostSend
  <1>2. Append(toDev[c], sentence(c)) \in Seq(Requests)
    <2>1. sentence(c) \in Requests /\ toDev[c] \in Seq(Requests)
      BY SentenceTyped, LastOfLines DEF HostSend
    <2>2. QED
      BY <2>1, AppendProperties
  <1>3. toDev' \in [Channels -> Seq(Requests)]
    BY <1>1, <1>2, ToDevTyped
  <1>4. UNCHANGED <<turn, devVars, tcpVars, toHost, hostVars>>
    BY DEF HostSend
  <1>5. QED
    BY <1>3, <1>4 DEF TypeInv, DeviceTyped, LinesTyped, HostsTyped, LoopTyped, devVars, tcpVars, hostVars

LEMMA HostReceiveTyped ==
  ASSUME TypeInv, NEW c \in Channels, HostReceive(c)
  PROVE  TypeInv'
  <1> DEFINE r == Head(toHost[c])
             next == hostNum[c] + 1
  <1>1. toHost[c] # <<>> /\ toHost' = [toHost EXCEPT ![c] = Tail(toHost[c])]
    BY DEF HostReceive
  <1>2. r \in Responses /\ toHost' \in [Channels -> Seq(Responses)]
    BY <1>1, LastOfLines, ToHostTyped
  <1>3. UNCHANGED <<turn, devVars, tcpVars>>
    BY DEF HostReceive
  <1>4. SUFFICES HostsTyped' /\ toDev' \in [Channels -> Seq(Requests)]
    BY <1>2, <1>3 DEF TypeInv, DeviceTyped, LinesTyped, LoopTyped, devVars, tcpVars
  <1>5. next \in Nat /\ 0 \in Nat
    BY DEF TypeInv, HostsTyped
  <1>6. r.chunk \in 0..NChunks
    BY <1>2 DEF Responses
  <1> HIDE DEF r, next
  <1>7. ASSUME NEW chunk \in 0..NChunks PROVE Append(got[c], chunk) \in Seq(0..NChunks)
    BY AppendProperties DEF TypeInv, HostsTyped
  <1>8. CASE Move(c, "LGN", next) /\ hostEnc' = [hostEnc EXCEPT ![c] = r.kind = "DTY with key"] /\ UNCHANGED <<got, toDev>>
    <2>1. "LGN" \in Steps
      BY DEF Steps
    <2>2. hostEnc' \in [Channels -> BOOLEAN]
      BY <1>8 DEF TypeInv, HostsTyped
    <2>3. QED
      BY <1>5, <1>8, <2>1, <2>2, MoveTyped DEF TypeInv, HostsTyped, LinesTyped
  <1>9. CASE (\E step \in Commands : Move(c, step, next)) /\ UNCHANGED <<hostEnc, got, toDev>>
    <2>1. Commands \subseteq Steps
      BY SessionAssumption DEF Steps
    <2>2. QED
      BY <1>5, <1>9, <2>1, MoveTyped DEF TypeInv, HostsTyped, LinesTyped
  <1>10. CASE Move(c, "CFI", next) /\ got' = [got EXCEPT ![c] = Append(got[c], r.chunk)] /\ UNCHANGED <<hostEnc, toDev>>
    <2>1. "CFI" \in Steps
      BY DEF Steps
    <2>2. got' \in [Channels -> Seq(0..NChunks)]
      BY <1>6, <1>7, <1>10 DEF TypeInv, HostsTyped
    <2>3. QED
      BY <1>5, <1>10, <2>1, <2>2, MoveTyped DEF TypeInv, HostsTyped, LinesTyped
  <1>11. CASE /\ next <= MaxNum
              /\ Move(c, "off", 0)
              /\ got' = [got EXCEPT ![c] = Append(got[c], r.chunk)]
              /\ toDev' = [toDev EXCEPT ![c] = Append(toDev[c], [sentence(c) EXCEPT !.tag = "LOF", !.num = next])]
              /\ UNCHANGED hostEnc
    <2>1. "off" \in Steps
      BY DEF Steps
    <2>2. got' \in [Channels -> Seq(0..NChunks)]
      BY <1>6, <1>7, <1>11 DEF TypeInv, HostsTyped
    <2>3. toDev' \in [Channels -> Seq(Requests)]
      <3> DEFINE m == [sentence(c) EXCEPT !.tag = "LOF", !.num = next]
      <3>1. next \in 0..MaxNum
        BY <1>5, <1>11, ProtocolAssumption
      <3>2. m \in Requests
        BY <3>1, SentenceTyped
      <3> HIDE DEF m
      <3>3. Append(toDev[c], m) \in Seq(Requests)
        BY <3>2, LastOfLines, AppendProperties
      <3>4. QED
        BY <1>11, <3>3, ToDevTyped DEF m
    <2>4. QED
      BY <1>5, <1>11, <2>1, <2>2, <2>3, MoveTyped DEF TypeInv, HostsTyped
  <1>12. CASE Move(c, "off", 0) /\ UNCHANGED <<hostEnc, got, toDev>>
    <2>1. "off" \in Steps
      BY DEF Steps
    <2>2. QED
      BY <1>5, <1>12, <2>1, MoveTyped DEF TypeInv, HostsTyped, LinesTyped
  <1>13. CASE UNCHANGED <<toDev, hostVars>>
    BY <1>13 DEF hostVars, TypeInv, HostsTyped, LinesTyped
  <1>14. QED
    BY <1>8, <1>9, <1>10, <1>11, <1>12, <1>13 DEF HostReceive, r, next

\* A host that gives up, with or without its connection.
LEMMA HostStopTyped ==
  ASSUME TypeInv, (\E c \in Channels : HostGiveUp(c)) \/ HostConnect \/ HostDisconnect
  PROVE  TypeInv'
  <1>1. "off" \in Steps /\ 0 \in Nat /\ "ETHERNET" \in Channels
    BY DEF Steps, Channels
  <1>2. ASSUME NEW c \in Channels, Move(c, "off", 0), UNCHANGED <<hostEnc, got>>
        PROVE  HostsTyped'
    BY <1>1, <1>2, MoveTyped DEF TypeInv, HostsTyped
  <1>3. ASSUME NEW c \in Channels, HostGiveUp(c) PROVE TypeInv'
    BY <1>2, <1>3 DEF HostGiveUp, TypeInv, DeviceTyped, LinesTyped, LoopTyped, devVars, tcpVars
  <1>4. CASE HostConnect
    BY <1>4 DEF HostConnect, TypeInv, DeviceTyped, LinesTyped, HostsTyped, LoopTyped, devVars, hostVars
  <1>5. CASE HostDisconnect
    <2>1. HostsTyped'
      BY <1>1, <1>2, <1>5 DEF HostDisconnect
    <2>2. toHost' \in [Channels -> Seq(Responses)]
      <3>1. <<>> \in Seq(Responses)
        OBVIOUS
      <3>2. QED
        BY <1>1, <1>5, <3>1, ToHostTyped DEF HostDisconnect
    <2>3. QED
      BY <1>5, <2>1, <2>2 DEF HostDisconnect, TypeInv, DeviceTyped, LinesTyped, LoopTyped, devVars
  <1>6. QED
    BY <1>3, <1>4, <1>5

LEMMA InitTyped == Init => TypeInv
  <1> SUFFICES ASSUME Init PROVE TypeInv
    OBVIOUS
  <1>1. DeviceTyped
    <2>1. InitSession \in Sessions
      BY ProtocolAssumption DEF InitSession, Sessions
    <2>2. <<>> \in Seq(Bytes) /\ Len(<<>>) = 0 /\ <<>> \in Seq(Responses)
      OBVIOUS
    <2>3. QED
      BY <2>1, <2>2, SessionAssumption DEF Init, DeviceTyped, IsReply
  <1>2. LinesTyped
    <2>1. <<>> \in Seq(Requests) /\ <<>> \in Seq(Responses)
      OBVIOUS
    <2>2. QED
      BY <2>1 DEF Init, LinesTyped
  <1>3. HostsTyped
    <2>1. <<>> \in Seq(0..NChunks)
      OBVIOUS
    <2>2. QED
      BY <2>1, ProtocolAssumption DEF Init, HostsTyped, Steps, Args
  <1>4. QED
    BY <1>1, <1>2, <1>3 DEF Init, TypeInv, LoopTyped

LEMMA NextTyped == TypeInv /\ [Next]_vars => TypeInv'
  <1> SUFFICES ASSUME TypeInv, [Next]_vars PROVE TypeInv'
    OBVIOUS
  <1>1. CASE ExchangeUARTData
    BY <1>1, SerialTyped
  <1>2. CASE ExchangeTcpData
    BY <1>2, TcpTyped
  <1>3. CASE AcceptTcp
    BY <1>3, AcceptTyped
  <1>4. CASE NoConnection
    BY <1>4 DEF NoConnection, TypeInv, DeviceTyped, LinesTyped, HostsTyped, LoopTyped, devVars, tcpVars, hostVars
  <1>5. CASE KeepAlive
    BY <1>5, KeepAliveTyped
  <1>6. CASE Lose \/ Garble
    BY <1>6, LineFaultTyped
  <1>7. ASSUME NEW c \in Hosts, Host(c) PROVE TypeInv'
    <2>1. c \in Channels
      BY SessionAssumption
    <2>2. QED
      BY <1>7, <2>1, HostStartTyped, HostSendTyped, HostReceiveTyped, HostStopTyped DEF Host
  <1>8. CASE HostConnect \/ HostDisconnect
    BY <1>8, HostStopTyped
  <1>9. CASE UNCHANGED vars
    BY <1>9 DEF vars, TypeInv, DeviceTyped, LinesTyped, HostsTyped, LoopTyped, devVars, tcpVars, hostVars
  <1>10. QED
    BY <1>1, <1>2, <1>3, <1>4, <1>5, <1>6, <1>7, <1>8, <1>9 DEF Next, Controller, MainLoop

\* The types hold whatever the hosts, the lines and the keep-alive bytes do: at
\* most one response is stored, no output buffer grows past its size, the
\* unsigned lengths stay below their modulus, and what is on a line to a host
\* holds no keep-alive byte.
THEOREM TypeCorrect == Spec => []TypeOK
  <1>1. ASSUME TypeInv PROVE TypeOK
    <2>1. ASSUME NEW T, NEW line \in Seq(T) PROVE \A i \in 1..Len(line) : line[i] \in T
      OBVIOUS
    <2>2. /\ session \in Sessions /\ Len(LastSentSentence) <= 1
          /\ \A i \in 1..Len(LastSentSentence) : LastSentSentence[i] \in Responses
      BY <1>1, <2>1 DEF TypeInv, DeviceTyped, IsReply
    <2>3. ASSUME NEW c \in Channels
          PROVE  /\ Len(OutgoingBuffer[c]) <= BufSize
                 /\ \A i \in 1..Len(OutgoingBuffer[c]) : OutgoingBuffer[c][i] \in Responses \cup {Space}
                 /\ IncommingBufferLength[c] \in 0..(LengthMod - 1)
      BY <1>1, <2>1 DEF TypeInv, DeviceTyped, Bytes
    <2>4. ASSUME NEW c \in Channels
          PROVE  /\ \A i \in 1..Len(toDev[c]) : toDev[c][i] \in Sentences
                 /\ \A i \in 1..Len(toHost[c]) : toHost[c][i] \in Responses
      BY <1>1, <2>1 DEF TypeInv, LinesTyped, Requests
    <2>5. ASSUME NEW c \in Channels
          PROVE  /\ hostStep[c] \in {"off"} \cup Tags
                 /\ hostArg[c] \in Args /\ hostNum[c] \in 0..MaxNum /\ hostEnc[c] \in BOOLEAN
                 /\ \A i \in 1..Len(got[c]) : got[c][i] \in 0..NChunks
      BY <1>1, <2>1 DEF TypeInv, HostsTyped, Steps, Tags
    <2>6. QED
      BY <1>1, <2>2, <2>3, <2>4, <2>5 DEF TypeOK, TypeInv, LoopTyped
  <1>2. QED
    BY <1>1, InitTyped, NextTyped, PTL DEF Spec
-----------------------------------------------------------------------------
(* The transfer to the host on channel c. The predicates speak of            *)
(*   s, last    the session and the stored response                          *)
(*   dev, host  the requests and the responses on the way                    *)
(*   h          the host: its step, the number, argument and encryption of   *)
(*              its request, and the parts it has                            *)

hostAt(c) ==
  [step |-> hostStep[c], num |-> hostNum[c], arg |-> hostArg[c], enc |-> hostEnc[c], got |-> got[c]]

Active(c, s) == s.ActiveChannel = c
Synced(c, s) == Active(c, s) /\ s.UserLoggedOn
Is(last, kind) == last # <<>> /\ last[1].kind = kind

\* A stored confirmation or part is of a request that is repeated, if it is
\* known by its number: no later one than that expected next, but for the first
\* request of a connection, whose response may have been dropped.
KeptInv(c, s, last) ==
  Active(c, s) /\ (Is(last, "EOK") \/ Is(last, "FIL")) =>
    s.ExpectedSentenceNum <= last[1].num + 1 \/ s.ExpectedSentenceNum <= 2

\* Of the host's requests those that can be read do not outrun its number, and
\* those of a step before the last one are gone when a file is transferred.
RequestInv(m, h) ==
  /\ m.tag # "unreadable"
  /\ m.tag = "LGN" => m.arg # "missing"
  /\ m.tag = "GDT" => ~m.enc
  /\ h.step # "off" /\ m.ok => m.num <= h.num
  /\ h.step = "GDT" => m.tag = "GDT"
  /\ h.step = "LGN" => m.tag \in {"GDT", "LGN"}
  /\ h.step = "GFI" => /\ m.tag \in {"GDT", "LGN", "GFI"}
                       /\ m.ok => (m.tag = "GFI" <=> m.num = h.num)
  /\ h.step = "CFI" => /\ m.tag \in {"GFI", "CFI"}
                       /\ m.ok /\ m.num = h.num => m.tag = "CFI"

\* They are in the order of the steps the host has gone through.
RequestsInv(dev, h) ==
  /\ h.step # "off" => h.num >= 1
  /\ h.step = "LGN" => h.arg # "missing"
  /\ h.step = "GDT" => ~h.enc
  /\ \A i \in 1..Len(dev) : RequestInv(dev[i], h)
  /\ \A i, j \in 1..Len(dev) :
       h.step = "GFI" /\ i < j /\ dev[i].tag = "GFI" => dev[j].tag = "GFI"

\* All that the Ethernet host has sent can be read: none is taken for another.
Clean(c, s, dev, h) ==
  /\ c = "ETHERNET" /\ ~s.UseEncryption /\ ~h.enc
  /\ \A i \in 1..Len(dev) : dev[i].ok /\ ~dev[i].enc

\* And none has a number below the expected one, so that what is stored is not
\* sent, whatever it is.
Unasked(c, s, dev, h) == h.step = "GFI" /\ s.ExpectedSentenceNum <= h.num /\ Clean(c, s, dev, h)

\* Nothing of an earlier session is taken for an answer: but for the response
\* an earlier connection may have left there is none before the login is
\* answered, and no part of a file follows its answer.
LoginInv(c, s, last, dev, host, h) ==
  /\ h.step = "GDT" => \A i \in 2..Len(host) : host[i].kind \notin {"EOK", "FIL"}
  /\ h.step = "LGN" =>
       \A i \in 1..Len(host) :
         host[i].kind = "EOK" /\ host[i].num = h.num /\ Active(c, s) =>
           (Is(last, "FIL") => Clean(c, s, dev, h)) /\ s.ExpectedSentenceNum <= h.num + 1
  /\ h.step = "LGN" =>
       \A i, j \in 1..Len(host) :
         host[i].kind = "EOK" /\ host[i].num = h.num /\ i < j => host[j].kind # "FIL"

\* A part on the way or stored is of an earlier request, or the one waited for.
PartInv(r, h) ==
  r.kind = "FIL" =>
    \/ h.step = "CFI" /\ r.num < h.num
    \/ r.num = h.num /\ r.chunk = Len(h.got) + 1

HasPart(host) == \E i \in 1..Len(host) : host[i].kind = "FIL"

FileInv(c, s, last, dev, host, h) ==
  /\ \A i \in 1..Len(host) : PartInv(host[i], h)
  /\ Active(c, s) /\ last # <<>> => PartInv(last[1], h) \/ Unasked(c, s, dev, h)
  /\ Active(c, s) /\ Is(last, "FIL") =>
       s.ExpectedSentenceNum = last[1].num + 1 \/ Unasked(c, s, dev, h)
  /\ Active(c, s) => s.ExpectedSentenceNum <= h.num + 1
  /\ Synced(c, s) /\ s.ExpectedSentenceNum = h.num + 1 => s.CrntFileTransferPos = Len(h.got) + 1
  /\ Synced(c, s) /\ s.ExpectedSentenceNum <= h.num /\ h.step = "CFI" =>
       s.ExpectedSentenceNum = h.num /\ s.CrntFileTransferPos = Len(h.got)
  /\ \A i \in 1..Len(host) :
       Synced(c, s) /\ host[i].kind = "FIL" /\ host[i].num = h.num => s.ExpectedSentenceNum = h.num + 1
  /\ h.step = "GFI" /\ HasPart(host) /\ Active(c, s) => s.ExpectedSentenceNum = h.num + 1
  /\ h.step = "GFI" /\ (HasPart(host) \/ (Active(c, s) /\ Is(last, "FIL") /\ ~Unasked(c, s, dev, h))) =>
       \A i \in 1..Len(dev) : dev[i].tag = "GFI"

GotInv(h) ==
  /\ \A i \in 1..Len(h.got) : h.got[i] = i
  /\ h.step \in {"GDT", "LGN", "GFI"} => h.got = <<>>
  /\ h.step = "CFI" => Len(h.got) < NChunks

TransferInv(c, s, last, dev, host, h) ==
  /\ s.UserLoggedOn => s.ActiveChannel # "NONE"
  /\ KeptInv(c, s, last)
  /\ RequestsInv(dev, h)
  /\ LoginInv(c, s, last, dev, host, h)
  /\ h.step \in {"GFI", "CFI"} => FileInv(c, s, last, dev, host, h)
  /\ GotInv(h)

HostStates == [step : Steps, num : 0..MaxNum, arg : Args, enc : BOOLEAN, got : Seq(0..NChunks)]

LEMMA TailOf ==
  ASSUME NEW T, NEW q \in Seq(T), q # <<>>
  PROVE  /\ Tail(q) \in Seq(T) /\ Len(Tail(q)) \in Nat
         /\ \A i \in 1..Len(Tail(q)) : i + 1 \in 1..Len(q) /\ Tail(q)[i] = q[i + 1]
         /\ 1 \in 1..Len(q) /\ Head(q) = q[1] /\ q[1] \in T
  OBVIOUS

LEMMA JoinOf ==
  ASSUME NEW T, NEW q \in Seq(T), NEW x \in T
  PROVE  /\ q \o <<x>> \in Seq(T) /\ Len(q \o <<x>>) = Len(q) + 1 /\ Len(q) \in Nat
         /\ (q \o <<x>>)[Len(q) + 1] = x
         /\ \A i \in 1..Len(q) : (q \o <<x>>)[i] = q[i]
  OBVIOUS

\* The first k requests are taken from the line, or lost.
LEMMA RequestsTaken ==
  ASSUME NEW c \in Channels, NEW s \in Sessions, NEW last, NEW dev \in Seq(Requests), NEW host, NEW h \in HostStates,
         TransferInv(c, s, last, dev, host, h),
         NEW t \in Seq(Requests), NEW k \in Nat,
         \A i \in 1..Len(t) : i + k \in 1..Len(dev) /\ t[i] = dev[i + k]
  PROVE  TransferInv(c, s, last, t, host, h)
  <1>1. Len(t) \in Nat
    OBVIOUS
  <1>2. RequestsInv(t, h)
    <2>1. RequestsInv(dev, h)
      BY DEF TransferInv
    <2>2. ASSUME NEW i \in 1..Len(t), NEW j \in 1..Len(t), h.step = "GFI", i < j, t[i].tag = "GFI"
          PROVE  t[j].tag = "GFI"
      <3>1. i + k \in 1..Len(dev) /\ j + k \in 1..Len(dev) /\ i + k < j + k
        BY <1>1, <2>2
      <3>2. QED
        BY <2>1, <2>2, <3>1 DEF RequestsInv
    <2>3. QED
      BY <2>1, <2>2 DEF RequestsInv
  <1>3. Clean(c, s, dev, h) => Clean(c, s, t, h)
    BY DEF Clean
  <1>4. Unasked(c, s, dev, h) => Unasked(c, s, t, h)
    BY <1>3 DEF Unasked
  <1>5. LoginInv(c, s, last, t, host, h)
    BY <1>3 DEF TransferInv, LoginInv
  <1>6. h.step \in {"GFI", "CFI"} => FileInv(c, s, last, t, host, h)
    BY <1>4 DEF TransferInv, FileInv
  <1>7. QED
    BY <1>2, <1>5, <1>6 DEF TransferInv

LEMMA RequestTaken ==
  ASSUME NEW c \in Channels, NEW s \in Sessions, NEW last, NEW dev \in Seq(Requests), NEW host, NEW h \in HostStates,
         TransferInv(c, s, last, dev, host, h), dev # <<>>
  PROVE  TransferInv(c, s, last, Tail(dev), host, h)
  <1> DEFINE t == Tail(dev)
  <1>1. t \in Seq(Requests) /\ \A i \in 1..Len(t) : i + 1 \in 1..Len(dev) /\ t[i] = dev[i + 1]
    BY TailOf
  <1> HIDE DEF t
  <1>2. TransferInv(c, s, last, t, host, h)
    BY <1>1, RequestsTaken
  <1>3. QED
    BY <1>2 DEF t

LEMMA ResponseTaken ==
  ASSUME NEW c \in Channels, NEW s \in Sessions, NEW last, NEW dev \in Seq(Requests), NEW host \in Seq(Responses),
         NEW h \in HostStates, TransferInv(c, s, last, dev, host, h), host # <<>>
  PROVE  TransferInv(c, s, last, dev, Tail(host), h)
  <1> DEFINE t == Tail(host)
  <1>1. /\ Len(t) \in Nat
        /\ \A i \in 1..Len(t) : i + 1 \in 1..Len(host) /\ t[i] = host[i + 1]
    BY TailOf
  <1> HIDE DEF t
  <1>2. LoginInv(c, s, last, dev, t, h)
    <2>1. LoginInv(c, s, last, dev, host, h)
      BY DEF TransferInv
    <2>2. ASSUME NEW i \in 1..Len(t), NEW j \in 1..Len(t), h.step = "LGN",
                 t[i].kind = "EOK", t[i].num = h.num, i < j
          PROVE  t[j].kind # "FIL"
      <3>1. i + 1 \in 1..Len(host) /\ j + 1 \in 1..Len(host) /\ i + 1 < j + 1
        BY <1>1, <2>2
      <3>2. QED
        BY <1>1, <2>1, <2>2, <3>1 DEF LoginInv
    <2>3. ASSUME NEW i \in 2..Len(t), h.step = "GDT"
          PROVE  t[i].kind \notin {"EOK", "FIL"}
      <3>1. i \in 1..Len(t)
        BY <1>1
      <3>2. i + 1 \in 2..Len(host)
        BY <1>1, <3>1
      <3>3. QED
        BY <1>1, <2>1, <2>3, <3>1, <3>2 DEF LoginInv
    <2>4. QED
      BY <1>1, <2>1, <2>2, <2>3 DEF LoginInv
  <1>3. HasPart(t) => HasPart(host)
    BY <1>1 DEF HasPart
  <1>4. h.step \in {"GFI", "CFI"} => FileInv(c, s, last, dev, t, h)
    BY <1>1, <1>3 DEF TransferInv, FileInv
  <1>5. QED
    BY <1>2, <1>4 DEF TransferInv, t

\* A garbled request keeps its tag and argument.
LEMMA RequestGarbled ==
  ASSUME NEW c \in Channels, c # "ETHERNET", NEW s \in Sessions, NEW last, NEW dev \in Seq(Requests),
         NEW host \in Seq(Responses),
         NEW h \in HostStates, TransferInv(c, s, last, dev, host, h), dev # <<>>, NEW m,
         m.tag = Head(dev).tag, m.arg = Head(dev).arg, m.enc = Head(dev).enc, ~m.ok
  PROVE  TransferInv(c, s, last, <<m>> \o Tail(dev), host, h)
  <1> DEFINE t == <<m>> \o Tail(dev)
  <1>1. /\ Len(t) = Len(dev) /\ Len(dev) \in Nat
        /\ \A i \in 1..Len(t) : t[i] = dev[i] \/ (i = 1 /\ t[i] = m)
    OBVIOUS
  <1>2. Head(dev) = dev[1]
    OBVIOUS
  <1> HIDE DEF t
  <1>3. /\ \A i \in 1..Len(t) : /\ t[i].tag = dev[i].tag /\ t[i].arg = dev[i].arg /\ t[i].enc = dev[i].enc
                                /\ t[i].ok => dev[i].ok /\ t[i].num = dev[i].num
    BY <1>1, <1>2
  <1>4. RequestsInv(t, h)
    BY <1>1, <1>3 DEF TransferInv, RequestsInv, RequestInv
  <1>5. ~Clean(c, s, dev, h)
    BY DEF Clean
  <1>6. LoginInv(c, s, last, t, host, h)
    BY <1>5 DEF TransferInv, LoginInv
  <1>7. h.step \in {"GFI", "CFI"} => FileInv(c, s, last, t, host, h)
    BY <1>1, <1>3, <1>5 DEF TransferInv, FileInv, Unasked
  <1>8. QED
    BY <1>4, <1>6, <1>7 DEF TransferInv, t

\* What another channel does to the session: it leaves it alone, or takes it.
Aside(c, s, last, s2, last2) ==
  /\ s2.UserLoggedOn => s2.ActiveChannel # "NONE"
  /\ Active(c, s2) => (s2 = s) /\ (last2 = last \/ ~(Is(last2, "EOK") \/ Is(last2, "FIL")))

LEMMA SessionAside ==
  ASSUME NEW c \in Channels, NEW s \in Sessions, NEW last, IsReply(last), NEW dev \in Seq(Requests), NEW host,
         NEW h \in HostStates, TransferInv(c, s, last, dev, host, h),
         NEW s2 \in Sessions, NEW last2, IsReply(last2), Aside(c, s, last, s2, last2)
  PROVE  TransferInv(c, s2, last2, dev, host, h)
  <1>1. CASE ~Active(c, s2)
    <2>1. LoginInv(c, s2, last2, dev, host, h)
      BY <1>1 DEF TransferInv, LoginInv
    <2>2. h.step \in {"GFI", "CFI"} => FileInv(c, s2, last2, dev, host, h)
      BY <1>1 DEF TransferInv, FileInv, Synced
    <2>3. QED
      BY <1>1, <2>1, <2>2 DEF TransferInv, KeptInv, Aside
  <1>2. CASE Active(c, s2)
    <2>1. s2 = s
      BY <1>2 DEF Aside
    <2>2. CASE last2 = last
      BY <2>1, <2>2
    <2>3. CASE ~Is(last2, "EOK") /\ ~Is(last2, "FIL")
      <3>1. KeptInv(c, s, last2) /\ LoginInv(c, s, last2, dev, host, h)
        BY <2>3 DEF TransferInv, KeptInv, LoginInv
      <3>2. h.step \in {"GFI", "CFI"} => FileInv(c, s, last2, dev, host, h)
        BY <2>3 DEF TransferInv, FileInv, PartInv, Is
      <3>3. QED
        BY <2>1, <3>1, <3>2 DEF TransferInv
    <2>4. QED
      BY <1>2, <2>2, <2>3 DEF Aside
  <1>3. QED
    BY <1>1, <1>2

\* A response that confirms nothing and carries no part of the file.
LEMMA PlainResponse ==
  ASSUME NEW c \in Channels, NEW s \in Sessions, NEW last, NEW dev \in Seq(Requests), NEW host \in Seq(Responses),
         NEW h \in HostStates, TransferInv(c, s, last, dev, host, h),
         NEW x \in Responses, x.kind \notin {"EOK", "FIL"}
  PROVE  TransferInv(c, s, last, dev, host \o <<x>>, h)
  <1> DEFINE t == host \o <<x>>
  <1>1. /\ Len(t) = Len(host) + 1 /\ Len(host) \in Nat
        /\ t[Len(host) + 1] = x
        /\ \A i \in 1..Len(host) : t[i] = host[i]
    BY JoinOf
  <1> HIDE DEF t
  <1>2. \A i \in 1..Len(t) : (i \in 1..Len(host) /\ t[i] = host[i]) \/ t[i].kind \notin {"EOK", "FIL"}
    BY <1>1
  <1>3. LoginInv(c, s, last, dev, t, h)
    <2>1. \A i \in 2..Len(t) : i \in 1..Len(t) /\ (i \in 1..Len(host) => i \in 2..Len(host))
      BY <1>1
    <2>2. QED
      BY <1>2, <2>1 DEF TransferInv, LoginInv
  <1>4. HasPart(t) => HasPart(host)
    BY <1>2 DEF HasPart
  <1>5. h.step \in {"GFI", "CFI"} => FileInv(c, s, last, dev, t, h)
    BY <1>2, <1>4 DEF TransferInv, FileInv, PartInv
  <1>6. QED
    BY <1>3, <1>5 DEF TransferInv, t


-----------------------------------------------------------------------------
(* What the controller makes of a request.                                   *)

\* A request that it accepts on channel c.
Confirmed(c, s, m, s2, x) ==
  /\ m.ok /\ Active(c, s2) /\ s2.ExpectedSentenceNum = m.num + 1 /\ x \in Responses /\ x.num = m.num
  /\ m.tag = "LGN" => s2.UseEncryption = m.enc
  /\ \/ x.kind \notin {"EOK", "FIL"} /\ ~s2.UserLoggedOn
     \/ m.tag \in {"LGN", "SEP"} /\ x.kind = "EOK"
     \/ /\ Synced(c, s) /\ s.ExpectedSentenceNum <= m.num /\ x.kind = "FIL"
        /\ \/ m.tag = "GFI" /\ x.chunk = 1 /\ s2.CrntFileTransferPos = 1
           \/ /\ m.tag = "CFI"
              /\ s.CrntFileTransferPos < NChunks =>
                   x.chunk = s.CrntFileTransferPos + 1 /\ s2.CrntFileTransferPos = s.CrntFileTransferPos + 1

\* No response, or one that confirms nothing.
IsPlain(reply) == reply = <<>> \/ \E x \in Responses : reply = <<x>> /\ x.kind \notin {"EOK", "FIL"}

\* A request taken for one that was received before: one that can be read is one.
Again(s, m) ==
  /\ m.tag # "GDT"
  /\ m.ok /\ m.enc = s.UseEncryption => m.tag # "LGN" /\ m.num < s.ExpectedSentenceNum

Outcome(c, s, last, m, r) ==
  \/ m.tag \in {"LOF", "SEP"} /\ ~Active(c, r.session) /\ ~r.session.UserLoggedOn
  \/ /\ ~r.emptied
     /\ \/ Aside(c, s, last, r.session, last) /\ IsPlain(r.reply)
        \/ r.session = s /\ Active(c, s) /\ r.reply = last /\ Again(s, m)
        \/ \E x : r.reply = <<x>> /\ Confirmed(c, s, m, r.session, x)

LEMMA PlainReplies ==
  ASSUME NEW s \in Sessions, NEW n \in 0..MaxNum, NEW kind \in Kinds, kind \notin {"EOK", "FIL"}
  PROVE  IsPlain(Reply(s, kind, n))
  <1> DEFINE x == [kind |-> kind, num |-> n, chunk |-> 0, enc |-> s.UseEncryption]
  <1>1. x \in Responses
    BY ProtocolAssumption DEF Responses, Sessions
  <1>2. x.kind = kind /\ Reply(s, kind, n) = <<x>>
    BY DEF Reply
  <1> HIDE DEF x
  <1>3. QED
    BY <1>1, <1>2 DEF IsPlain

\* A request is accepted and dispatched.
LEMMA Dispatched ==
  ASSUME NEW c \in Channels, NEW s \in Sessions, s.ActiveChannel \in {"NONE", c}, s.UserLoggedOn => Active(c, s),
         NEW m \in Requests, m.ok, m.enc = s.UseEncryption, m.tag # "unreadable", m.tag = "LGN" => m.arg # "missing", m.tag = "GDT" => ~s.UserLoggedOn,
         m.tag \in {"GFI", "CFI"} /\ Active(c, s) => s.ExpectedSentenceNum <= m.num,
         NEW last
  PROVE  Outcome(c, s, last, m, Dispatch(Accepted(s, c, m), c, m))
  <1> DEFINE a == Accepted(s, c, m)
  <1>0. c # "NONE"
    BY DEF Channels
  <1>1. /\ a \in Sessions /\ Active(c, a) /\ a.ExpectedSentenceNum = m.num + 1
        /\ a.UserLoggedOn = s.UserLoggedOn /\ a.UseEncryption = m.enc /\ a.CrntFileTransferPos = s.CrntFileTransferPos
    BY AcceptedTyped DEF Accepted, Active, Sessions
  <1>2. m.num \in 0..MaxNum /\ m.tag \in Tags /\ m.arg \in Args
    BY DEF Requests, Sentences
  <1> HIDE DEF a
  <1>3. ASSUME NEW t \in Sessions, NEW kind \in Kinds, NEW chunk \in 0..NChunks
        PROVE  [kind |-> kind, num |-> m.num, chunk |-> chunk, enc |-> t.UseEncryption] \in Responses
    BY <1>2, <1>3 DEF Responses, Sessions
  <1>4. 0 \in 0..NChunks /\ 1 \in 0..NChunks
    BY ProtocolAssumption
  <1>5. ASSUME m.tag = "LGN" PROVE Outcome(c, s, last, m, ProcessLGN(a, c, m))
    <2>1. CASE m.arg = "wrong"
      <3> DEFINE t == [a EXCEPT !.UserLevel = 2, !.UserLoggedOn = FALSE, !.ActiveChannel = "NONE"]
      <3>1. ProcessLGN(a, c, m) = Result(t, Reply(a, "LGF", m.num))
        BY <2>1 DEF ProcessLGN
      <3>2. IsPlain(Reply(a, "LGF", m.num))
        BY <1>1, <1>2, PlainReplies DEF Kinds
      <3>3. ~t.UserLoggedOn /\ ~Active(c, t)
        BY <1>0, <1>1 DEF Active, Sessions
      <3> HIDE DEF t
      <3>4. QED
        BY <3>1, <3>2, <3>3 DEF Outcome, Aside, Result
    <2>2. CASE m.arg # "wrong"
      <3> DEFINE t == [a EXCEPT !.UserLevel = Levels[m.arg], !.UserLoggedOn = TRUE, !.ActiveChannel = c]
                 x == [kind |-> "EOK", num |-> m.num, chunk |-> 0, enc |-> a.UseEncryption]
      <3>1. ProcessLGN(a, c, m) = Result(t, <<x>>)
        BY <1>5, <2>2 DEF ProcessLGN, Reply
      <3>2. Active(c, t) /\ t.ExpectedSentenceNum = m.num + 1 /\ t.UseEncryption = m.enc
        BY <1>1 DEF Active, Sessions
      <3>3. x \in Responses /\ x.num = m.num /\ x.kind = "EOK"
        BY <1>1, <1>3, <1>4 DEF Kinds
      <3> HIDE DEF t, x
      <3>4. Confirmed(c, s, m, t, x)
        BY <1>5, <3>2, <3>3 DEF Confirmed
      <3>5. QED
        BY <3>1, <3>4 DEF Outcome, Result
    <2>3. QED
      BY <2>1, <2>2
  <1>6. ASSUME m.tag = "GDT" PROVE Outcome(c, s, last, m, ProcessGDT(a, m))
    <2> DEFINE t == IF m.arg = "key" THEN [a EXCEPT !.UseEncryption = TRUE] ELSE a
               x == [kind |-> IF m.arg = "key" THEN "DTY with key" ELSE "DTY", num |-> m.num, chunk |-> 0,
                     enc |-> a.UseEncryption]
    <2>1. ProcessGDT(a, m) = Result(t, <<x>>)
      BY DEF ProcessGDT, Reply
    <2>2. Active(c, t) /\ t.ExpectedSentenceNum = m.num + 1 /\ ~t.UserLoggedOn
      BY <1>1, <1>6 DEF Active, Sessions
    <2>3. x \in Responses /\ x.num = m.num /\ x.kind \notin {"EOK", "FIL"}
      BY <1>1, <1>3, <1>4 DEF Kinds
    <2> HIDE DEF t, x
    <2>4. Confirmed(c, s, m, t, x)
      BY <1>6, <2>2, <2>3 DEF Confirmed
    <2>5. QED
      BY <2>1, <2>4 DEF Outcome, Result
  <1>7. ASSUME m.tag \notin {"LGN", "GDT"}, ~a.UserLoggedOn
        PROVE  Outcome(c, s, last, m, Result(a, Reply(a, "NTL", m.num)))
    <2> DEFINE x == [kind |-> "NTL", num |-> m.num, chunk |-> 0, enc |-> a.UseEncryption]
    <2>1. x \in Responses /\ x.num = m.num /\ x.kind \notin {"EOK", "FIL"} /\ Reply(a, "NTL", m.num) = <<x>>
      BY <1>1, <1>3, <1>4 DEF Kinds, Reply
    <2> HIDE DEF x
    <2>2. Confirmed(c, s, m, a, x)
      BY <1>1, <1>7, <2>1 DEF Confirmed
    <2>3. QED
      BY <2>1, <2>2 DEF Outcome, Result
  <1>8. ASSUME m.tag = "GFI", a.UserLoggedOn PROVE Outcome(c, s, last, m, ProcessGFI(a, m))
    <2> DEFINE t == [a EXCEPT !.CrntFileTransferPos = 1]
               x == [kind |-> "FIL", num |-> m.num, chunk |-> 1, enc |-> a.UseEncryption]
    <2>1. ProcessGFI(a, m) = Result(t, <<x>>)
      BY DEF ProcessGFI, Part
    <2>2. Active(c, t) /\ t.ExpectedSentenceNum = m.num + 1 /\ t.CrntFileTransferPos = 1
      BY <1>1 DEF Active, Sessions
    <2>3. x \in Responses /\ x.num = m.num /\ x.kind = "FIL" /\ x.chunk = 1
      BY <1>1, <1>3, <1>4 DEF Kinds
    <2>4. Synced(c, s) /\ s.ExpectedSentenceNum <= m.num
      BY <1>1, <1>8 DEF Synced
    <2> HIDE DEF t, x
    <2>5. Confirmed(c, s, m, t, x)
      BY <1>8, <2>2, <2>3, <2>4 DEF Confirmed
    <2>6. QED
      BY <2>1, <2>5 DEF Outcome, Result
  <1>9. ASSUME m.tag = "CFI", a.UserLoggedOn PROVE Outcome(c, s, last, m, ProcessCFI(a, m))
    <2>1. Synced(c, s) /\ s.ExpectedSentenceNum <= m.num
      BY <1>1, <1>9 DEF Synced
    <2>2. CASE a.CrntFileTransferPos < NChunks
      <3> DEFINE t == [a EXCEPT !.CrntFileTransferPos = a.CrntFileTransferPos + 1]
                 x == [kind |-> "FIL", num |-> m.num, chunk |-> a.CrntFileTransferPos + 1, enc |-> a.UseEncryption]
      <3>1. ProcessCFI(a, m) = Result(t, <<x>>)
        BY <2>2 DEF ProcessCFI, Part
      <3>2. Active(c, t) /\ t.ExpectedSentenceNum = m.num + 1 /\ t.CrntFileTransferPos = s.CrntFileTransferPos + 1
        BY <1>1 DEF Active, Sessions
      <3>3. x \in Responses /\ x.num = m.num /\ x.kind = "FIL" /\ x.chunk = s.CrntFileTransferPos + 1
        <4>1. a.CrntFileTransferPos + 1 \in 0..NChunks
          BY <1>1, <2>2, ProtocolAssumption DEF Sessions
        <4>2. QED
          BY <1>1, <1>3, <4>1 DEF Kinds
      <3> HIDE DEF t, x
      <3>4. Confirmed(c, s, m, t, x)
        BY <1>9, <2>1, <3>2, <3>3 DEF Confirmed
      <3>5. QED
        BY <3>1, <3>4 DEF Outcome, Result
    <2>3. CASE ~(a.CrntFileTransferPos < NChunks)
      <3> DEFINE x == [kind |-> "FIL", num |-> m.num, chunk |-> 0, enc |-> a.UseEncryption]
      <3>1. ProcessCFI(a, m) = Result(a, <<x>>)
        BY <2>3 DEF ProcessCFI, Part
      <3>2. x \in Responses /\ x.num = m.num /\ x.kind = "FIL"
        BY <1>1, <1>3, <1>4 DEF Kinds
      <3> HIDE DEF x
      <3>3. Confirmed(c, s, m, a, x)
        BY <1>1, <1>9, <2>1, <2>3, <3>2 DEF Confirmed
      <3>4. QED
        BY <3>1, <3>3 DEF Outcome, Result
    <2>4. QED
      BY <2>2, <2>3
  <1>10. ASSUME m.tag = "LOF" PROVE Outcome(c, s, last, m, ProcessLOF(a, m))
    BY <1>0, <1>1, <1>10 DEF Outcome, ProcessLOF, Result, Active, Sessions
  <1>11. ASSUME m.tag = "SEP" PROVE Outcome(c, s, last, m, ProcessSEP(a, c, m))
    <2>1. CASE c = "ETHERNET"
      <3>1. ProcessSEP(a, c, m).session = Cleared(a)
        BY <2>1 DEF ProcessSEP
      <3>2. ~Active(c, Cleared(a)) /\ ~Cleared(a).UserLoggedOn
        BY <1>0, <1>1 DEF Cleared, Active, Sessions
      <3>3. QED
        BY <1>11, <3>1, <3>2 DEF Outcome
    <2>2. CASE c # "ETHERNET"
      <3> DEFINE x == [kind |-> "EOK", num |-> m.num, chunk |-> 0, enc |-> a.UseEncryption]
      <3>1. ProcessSEP(a, c, m) = Result(a, <<x>>)
        BY <2>2 DEF ProcessSEP, Reply
      <3>2. x \in Responses /\ x.num = m.num /\ x.kind = "EOK"
        BY <1>1, <1>3, <1>4 DEF Kinds
      <3> HIDE DEF x
      <3>3. Confirmed(c, s, m, a, x)
        BY <1>1, <1>11, <3>2 DEF Confirmed
      <3>4. QED
        BY <3>1, <3>3 DEF Outcome, Result
    <2>3. QED
      BY <2>1, <2>2
  <1>12. QED
    <2>1. Outcome(c, s, last, m, Dispatch(a, c, m))
      BY <1>2, <1>5, <1>6, <1>7, <1>8, <1>9, <1>10, <1>11 DEF Dispatch, Tags
    <2>2. QED
      BY <2>1 DEF a

LEMMA Answered ==
  ASSUME NEW c \in Channels, NEW s \in Sessions, s.UserLoggedOn => s.ActiveChannel # "NONE", NEW last,
         NEW m \in Requests, m.tag # "unreadable", m.tag = "LGN" => m.arg # "missing", m.tag = "GDT" => ~m.enc,
         NEW r \in ProcessSentence(s, last, c, m)
  PROVE  Outcome(c, s, last, m, r)
  <1> DEFINE a == AfterPrefix(s, m)
  <1>0. c # "NONE"
    BY DEF Channels
  <1>1. /\ a \in Sessions /\ Aside(c, s, last, a, last)
        /\ a.UserLoggedOn => a.ActiveChannel # "NONE"
        /\ m.tag = "GDT" => a.ActiveChannel = "NONE"
        /\ m.tag # "GDT" /\ ~HasPrefix(m, {"LOF"}) => a = s
    <2>1. CASE HasPrefix(m, {"LOF", "GDT"})
      <3>1. a = Cleared(s)
        BY <2>1 DEF AfterPrefix
      <3>2. a \in Sessions /\ a.ActiveChannel = "NONE" /\ ~a.UserLoggedOn
        BY <3>1, ClearedTyped DEF Cleared, Sessions
      <3>3. m.tag \in {"GDT", "LOF"}
        BY <2>1 DEF HasPrefix
      <3> HIDE DEF a
      <3>4. QED
        BY <1>0, <2>1, <3>2, <3>3 DEF Aside, Active, HasPrefix
    <2>2. CASE ~HasPrefix(m, {"LOF", "GDT"})
      BY <2>2 DEF AfterPrefix, Aside, HasPrefix
    <2>3. QED
      BY <2>1, <2>2
  <1> HIDE DEF a
  <1>2. CASE r = Result(a, <<>>)
    BY <1>1, <1>2 DEF Outcome, IsPlain, Result
  <1>3. CASE ~HasPrefix(m, {"LOF"}) /\ \E x \in Readings(a, m) : r = Answer(a, last, c, x)
    <2>1. PICK x \in Readings(a, m) : r = Answer(a, last, c, x)
      BY <1>3
    <2>2. x \in Requests /\ (x = m \/ (~x.ok /\ m.tag # "GDT") \/ (~x.ok /\ ~Active(c, a)))
          /\ (m.enc = a.UseEncryption => x = m) /\ (x.ok => m.enc = a.UseEncryption)
      <3>1. CASE m.enc = a.UseEncryption
        BY <2>1, <3>1 DEF Readings
      <3>2. CASE m.enc # a.UseEncryption
        <4>1. PICK n \in 0..MaxNum : x = Unreadable(n)
          BY <2>1, <3>2 DEF Readings
        <4>2. x \in Requests /\ ~x.ok
          BY <4>1 DEF Unreadable, Requests, Sentences, Tags, Args
        <4>3. QED
          BY <1>0, <1>1, <3>2, <4>2 DEF Active
      <3>3. QED
        BY <3>1, <3>2
    <2>3. x.num \in 0..MaxNum
      BY <2>2 DEF Requests, Sentences
    <2>4. CASE IsDuplicate(a, c, x)
      <3>1. Active(c, a) /\ x.tag \notin {"LGN", "GDT"}
        BY <2>4 DEF IsDuplicate, Active
      <3>2. m.tag # "GDT" /\ a = s
        BY <1>0, <1>1, <1>3, <3>1 DEF Active
      <3>3. QED
        <4>1. Again(s, m)
          BY <2>2, <2>4, <3>1, <3>2 DEF Again, IsDuplicate
        <4>2. QED
          BY <2>1, <2>4, <3>1, <3>2, <4>1 DEF Answer, Outcome, Result
    <2>5. CASE ~IsDuplicate(a, c, x) /\ ~x.ok
      <3>1. IsPlain(Reply(a, "CHK", x.num))
        BY <1>1, <2>3, PlainReplies DEF Kinds
      <3>2. QED
        BY <1>1, <2>1, <2>5, <3>1 DEF Answer, Outcome, Result
    <2>6. CASE ~IsDuplicate(a, c, x) /\ x.ok /\ a.ActiveChannel \notin {"NONE", c}
      <3>1. IsPlain(Reply(a, "ALC", x.num))
        BY <1>1, <2>3, PlainReplies DEF Kinds
      <3>2. QED
        BY <1>1, <2>1, <2>6, <3>1 DEF Answer, Outcome, Result
    <2>7. CASE ~IsDuplicate(a, c, x) /\ x.ok /\ a.ActiveChannel \in {"NONE", c}
      <3>1. x = m /\ m.enc = a.UseEncryption /\ r = Dispatch(Accepted(a, c, m), c, m)
        BY <2>1, <2>2, <2>7 DEF Answer
      <3>2. Outcome(c, a, last, m, Dispatch(Accepted(a, c, m), c, m))
        <4>1. a.UserLoggedOn => Active(c, a)
          BY <1>0, <1>1, <2>7 DEF Active
        <4>2. m.tag = "GDT" => ~a.UserLoggedOn
          BY <1>1
        <4>3. m.tag \in {"GFI", "CFI"} /\ Active(c, a) => a.ExpectedSentenceNum <= m.num
          BY <1>1, <2>3, <2>7, <3>1 DEF IsDuplicate, Active, Sessions
        <4>4. QED
          BY <1>1, <2>2, <2>7, <3>1, <4>1, <4>2, <4>3, Dispatched
      <3>3. CASE a = s
        BY <3>1, <3>2, <3>3
      <3>4. CASE a # s
        <4>1. m.tag = "GDT" /\ ~Active(c, a)
          BY <1>0, <1>1, <1>3, <3>4 DEF Active
        <4>2. QED
          BY <3>1, <3>2, <4>1 DEF Outcome, Confirmed, Again, Aside, Synced
      <3>5. QED
        BY <3>3, <3>4
    <2>8. QED
      BY <2>4, <2>5, <2>6, <2>7
  <1>4. QED
    BY <1>2, <1>3 DEF ProcessSentence, a

-----------------------------------------------------------------------------
(* What processing the first request on the way makes of the transfer.       *)

\* The stored response is sent once more.
LEMMA Repeated ==
  ASSUME NEW c \in Channels, NEW s \in Sessions, NEW x \in Responses, NEW dev \in Seq(Requests), NEW host \in Seq(Responses),
         NEW h \in HostStates, TransferInv(c, s, <<x>>, dev, host, h), Active(c, s), dev # <<>>, Again(s, Head(dev))
  PROVE  TransferInv(c, s, <<x>>, dev, host \o <<x>>, h)
  <1> DEFINE t == host \o <<x>>
             n == Len(host) + 1
             m == Head(dev)
  <1>1. /\ Len(t) = n /\ Len(host) \in Nat
        /\ t[n] = x
        /\ \A i \in 1..Len(host) : t[i] = host[i]
    BY JoinOf
  <1>2. <<x>> # <<>> /\ <<x>>[1] = x
    OBVIOUS
  <1>3. 1 \in 1..Len(dev) /\ m = dev[1] /\ m \in Requests
    BY TailOf
  <1>4. s.ExpectedSentenceNum \in Nat /\ h.num \in Nat /\ x.num \in Nat /\ m.num \in Nat
    BY <1>3 DEF Sessions, HostStates, Responses, Requests, Sentences
  <1>5. \A i \in 1..Len(t) : (i \in 1..Len(host) /\ t[i] = host[i]) \/ (i = n /\ t[i] = x)
    BY <1>1
  <1>6. x.kind \in {"EOK", "FIL"} => s.ExpectedSentenceNum <= x.num + 1 \/ s.ExpectedSentenceNum <= 2
    BY <1>2 DEF TransferInv, KeptInv, Is
  <1>7. LoginInv(c, s, <<x>>, dev, host, h) /\ RequestsInv(dev, h)
    BY DEF TransferInv
  <1>8. RequestInv(m, h) /\ m.tag # "GDT"
    BY <1>3, <1>7 DEF RequestsInv, Again, m
  <1>9. Clean(c, s, dev, h) => m.tag # "LGN" /\ m.ok /\ m.num < s.ExpectedSentenceNum
    <2>1. m.enc \in BOOLEAN /\ s.UseEncryption \in BOOLEAN
      BY <1>3 DEF Requests, Sentences, Sessions
    <2>2. QED
      BY <1>3, <2>1 DEF Clean, Again, m
  <1> HIDE DEF t, m
  <1>10. h.step = "LGN" => ~Clean(c, s, dev, h)
    BY <1>8, <1>9 DEF RequestInv
  <1>11. ~Unasked(c, s, dev, h)
    BY <1>4, <1>8, <1>9 DEF Unasked, RequestInv
  <1>12. LoginInv(c, s, <<x>>, dev, t, h)
    <2>1. ASSUME h.step = "LGN", NEW i \in 1..Len(t), t[i].kind = "EOK", t[i].num = h.num
          PROVE  ~Is(<<x>>, "FIL") /\ s.ExpectedSentenceNum <= h.num + 1
      <3>1. CASE i \in 1..Len(host) /\ t[i] = host[i]
        BY <1>7, <1>10, <2>1, <3>1 DEF LoginInv
      <3>2. CASE t[i] = x
        <4>1. h.num >= 1
          BY <1>7, <2>1 DEF RequestsInv
        <4>2. s.ExpectedSentenceNum <= h.num + 1
          BY <1>4, <1>6, <2>1, <3>2, <4>1
        <4>3. QED
          BY <1>2, <2>1, <3>2, <4>2 DEF Is
      <3>3. QED
        BY <1>5, <3>1, <3>2
    <2>2. ASSUME h.step = "LGN", NEW i \in 1..Len(t), NEW j \in 1..Len(t),
                 t[i].kind = "EOK", t[i].num = h.num, i < j
          PROVE  t[j].kind # "FIL"
      <3>1. i \in 1..Len(host) /\ t[i] = host[i]
        BY <1>1, <1>5, <2>2
      <3>2. CASE j \in 1..Len(host) /\ t[j] = host[j]
        BY <1>7, <2>2, <3>1, <3>2 DEF LoginInv
      <3>3. CASE t[j] = x
        BY <1>2, <2>1, <2>2, <3>3 DEF Is
      <3>4. QED
        BY <1>5, <3>2, <3>3
    <2>3. h.step # "GDT"
      BY <1>8 DEF RequestInv
    <2>4. QED
      BY <2>1, <2>2, <2>3 DEF LoginInv
  <1>13. ASSUME h.step \in {"GFI", "CFI"} PROVE FileInv(c, s, <<x>>, dev, t, h)
    <2>1. FileInv(c, s, <<x>>, dev, host, h)
      BY <1>13 DEF TransferInv
    <2>2. PartInv(x, h)
      BY <1>2, <1>11, <2>1 DEF FileInv
    <2>3. \A i \in 1..Len(t) : PartInv(t[i], h)
      BY <1>5, <2>1, <2>2 DEF FileInv
    <2>4. x.kind = "FIL" => s.ExpectedSentenceNum = x.num + 1
      BY <1>2, <1>11, <2>1 DEF FileInv, Is
    <2>5. \A i \in 1..Len(t) :
            Synced(c, s) /\ t[i].kind = "FIL" /\ t[i].num = h.num => s.ExpectedSentenceNum = h.num + 1
      BY <1>5, <2>1, <2>4 DEF FileInv
    <2>6. HasPart(t) => HasPart(host) \/ (x.kind = "FIL" /\ Active(c, s) /\ Is(<<x>>, "FIL"))
      BY <1>2, <1>5 DEF Is, HasPart
    <2>7. h.step = "GFI" /\ HasPart(t) => s.ExpectedSentenceNum = h.num + 1
      BY <2>1, <2>2, <2>4, <2>6 DEF FileInv, PartInv
    <2>8. h.step = "GFI" /\ (HasPart(t) \/ (Active(c, s) /\ Is(<<x>>, "FIL"))) => \A i \in 1..Len(dev) : dev[i].tag = "GFI"
      BY <1>11, <2>1, <2>6 DEF FileInv
    <2> HIDE DEF HasPart, Unasked, Is, PartInv
    <2>9. QED
      BY <1>11, <2>1, <2>3, <2>5, <2>7, <2>8 DEF FileInv
  <1>14. QED
    BY <1>12, <1>13 DEF TransferInv, t

\* A request that has been accepted; the others on the line follow it.
LEMMA AcceptedStep ==
  ASSUME NEW c \in Channels, NEW s \in Sessions, NEW last, IsReply(last), NEW dev \in Seq(Requests), NEW host \in Seq(Responses),
         NEW h \in HostStates, TransferInv(c, s, last, dev, host, h), dev # <<>>,
         NEW s2 \in Sessions, s2.UserLoggedOn => s2.ActiveChannel # "NONE",
         NEW x, Confirmed(c, s, Head(dev), s2, x)
  PROVE  TransferInv(c, s2, <<x>>, Tail(dev), host \o <<x>>, h)
  <1> DEFINE m == Head(dev)
             t == host \o <<x>>
             d == Tail(dev)
             n == Len(host) + 1
             k == Len(h.got)
  <1>0. x \in Responses /\ <<x>> # <<>> /\ <<x>>[1] = x
    BY DEF Confirmed
  <1>1. /\ Len(t) = n /\ Len(host) \in Nat
        /\ t[n] = x
        /\ \A i \in 1..Len(host) : t[i] = host[i]
    BY <1>0, JoinOf
  <1>2. \A i \in 1..Len(t) : (i \in 1..Len(host) /\ t[i] = host[i]) \/ (i = n /\ t[i] = x)
    BY <1>1
  <1>3. /\ Len(d) \in Nat /\ m \in Requests
        /\ \A i \in 1..Len(d) : i + 1 \in 1..Len(dev) /\ d[i] = dev[i + 1]
        /\ 1 \in 1..Len(dev) /\ m = dev[1]
    BY TailOf
  <1>4. /\ s.ExpectedSentenceNum \in Nat /\ s2.ExpectedSentenceNum \in Nat /\ h.num \in Nat /\ m.num \in Nat
        /\ s.CrntFileTransferPos \in Nat /\ k \in Nat
    BY <1>3, ProtocolAssumption DEF Sessions, HostStates, Requests, Sentences
  <1>5. /\ m.ok /\ Active(c, s2) /\ s2.ExpectedSentenceNum = m.num + 1 /\ x.num = m.num
    BY DEF Confirmed
  <1>6. RequestInv(m, h)
    BY <1>3 DEF TransferInv, RequestsInv
  <1>7. TransferInv(c, s, last, d, host, h)
    BY RequestTaken
  <1> HIDE DEF m, t, d, k
  <1>8. KeptInv(c, s2, <<x>>)
    BY <1>0, <1>4, <1>5 DEF KeptInv
  <1>9. RequestsInv(d, h) /\ GotInv(h)
    BY <1>7 DEF TransferInv
  <1>10. m.num <= h.num \/ h.step = "off"
    BY <1>5, <1>6 DEF RequestInv
  <1>11. x.kind \in {"EOK", "FIL"} => h.step # "GDT"
    BY <1>6 DEF Confirmed, RequestInv, m
  <1>12. LoginInv(c, s2, <<x>>, d, t, h)
    <2>1. LoginInv(c, s, last, dev, host, h)
      BY DEF TransferInv
    <2>2. ASSUME h.step = "LGN" PROVE x.kind # "FIL"
      BY <1>6, <2>2 DEF Confirmed, RequestInv, m
    <2>3. h.step = "GDT" => \A i \in 2..Len(t) : t[i].kind \notin {"EOK", "FIL"}
      <3>1. \A i \in 2..Len(t) : i \in 1..Len(t) /\ (i \in 1..Len(host) => i \in 2..Len(host))
        BY <1>1
      <3>2. QED
        BY <1>2, <1>11, <2>1, <3>1 DEF LoginInv
    <2>4. h.step = "LGN" => ~Is(<<x>>, "FIL") /\ s2.ExpectedSentenceNum <= h.num + 1
      BY <1>0, <1>4, <1>5, <1>10, <2>2 DEF Is
    <2>5. ASSUME h.step = "LGN", NEW i \in 1..Len(t), NEW j \in 1..Len(t),
                 t[i].kind = "EOK", t[i].num = h.num, i < j
          PROVE  t[j].kind # "FIL"
      <3>1. i \in 1..Len(host) /\ t[i] = host[i]
        BY <1>1, <1>2, <2>5
      <3>2. CASE j \in 1..Len(host) /\ t[j] = host[j]
        BY <2>1, <2>5, <3>1, <3>2 DEF LoginInv
      <3>3. CASE t[j] = x
        BY <2>2, <2>5, <3>3
      <3>4. QED
        BY <1>2, <3>2, <3>3
    <2>6. QED
      BY <2>3, <2>4, <2>5 DEF LoginInv
  <1>13. ASSUME h.step \in {"GFI", "CFI"} PROVE FileInv(c, s2, <<x>>, d, t, h)
    <2>1. FileInv(c, s, last, d, host, h) /\ FileInv(c, s, last, dev, host, h)
      BY <1>7, <1>13 DEF TransferInv
    <2>2. m.num <= h.num
      BY <1>10, <1>13
    <2>3. CASE x.kind \notin {"EOK", "FIL"} /\ ~s2.UserLoggedOn
      <3>1. PartInv(x, h) /\ ~Is(<<x>>, "FIL")
        BY <1>0, <2>3 DEF PartInv, Is
      <3>2. \A i \in 1..Len(t) : PartInv(t[i], h)
        BY <1>2, <2>1, <3>1 DEF FileInv
      <3>3. HasPart(t) => HasPart(host)
        BY <1>2, <2>3 DEF HasPart
      <3>4. h.step = "GFI" /\ HasPart(host) => m.num = h.num
        BY <1>3, <1>5, <1>6, <2>1 DEF FileInv, RequestInv
      <3>5. QED
        BY <1>0, <1>4, <1>5, <2>1, <2>2, <2>3, <3>1, <3>2, <3>3, <3>4 DEF FileInv, Synced
    <2>4. CASE m.tag \in {"LGN", "SEP"} /\ x.kind = "EOK"
      <3>1. h.step = "GFI" /\ m.tag = "LGN" /\ m.num # h.num
        BY <1>5, <1>6, <1>13, <2>4 DEF RequestInv
      <3>2. \A i \in 1..Len(host) : host[i].kind # "FIL"
        BY <1>3, <2>1, <3>1 DEF FileInv, HasPart
      <3>3. \A i \in 1..Len(t) : t[i].kind # "FIL"
        BY <1>2, <2>4, <3>2
      <3>4. ~Is(<<x>>, "FIL") /\ s2.ExpectedSentenceNum <= h.num
        BY <1>0, <1>4, <1>5, <2>2, <2>4, <3>1 DEF Is
      <3>5. QED
        <4>1. \A i \in 1..Len(t) : PartInv(t[i], h)
          BY <3>3 DEF PartInv
        <4>2. PartInv(<<x>>[1], h)
          BY <1>0, <2>4 DEF PartInv
        <4>3. ~HasPart(t) /\ ~Is(<<x>>, "FIL")
          BY <3>3, <3>4 DEF HasPart
        <4>4. /\ s2.ExpectedSentenceNum <= h.num + 1 /\ s2.ExpectedSentenceNum # h.num + 1
          BY <1>4, <3>4
        <4>5. h.step # "CFI"
          BY <3>1
        <4>6. QED
          BY <3>3, <4>1, <4>2, <4>3, <4>4, <4>5 DEF FileInv
    <2>5. CASE /\ Synced(c, s) /\ s.ExpectedSentenceNum <= m.num /\ x.kind = "FIL"
               /\ m.tag = "GFI" /\ x.chunk = 1 /\ s2.CrntFileTransferPos = 1
      <3>1. h.step = "GFI"
        <4>1. ASSUME h.step = "CFI" PROVE FALSE
          <5>1. s.ExpectedSentenceNum = h.num /\ m.num = h.num
            BY <1>4, <2>1, <2>2, <2>5, <4>1 DEF FileInv
          <5>2. QED
            BY <1>5, <1>6, <2>5, <4>1, <5>1 DEF RequestInv
        <4>2. QED
          BY <1>13, <4>1
      <3>2. m.num = h.num /\ k = 0
        <4>1. m.num = h.num
          BY <1>5, <1>6, <2>5, <3>1 DEF RequestInv
        <4>2. h.got = <<>>
          BY <1>9, <3>1 DEF GotInv
        <4>3. QED
          BY <4>1, <4>2 DEF k
      <3>3. \A i \in 1..Len(d) : d[i].tag = "GFI"
        <4>1. RequestsInv(dev, h)
          BY DEF TransferInv
        <4>2. \A i \in 1..Len(d) : 1 < i + 1
          OBVIOUS
        <4>3. QED
          BY <1>3, <2>5, <3>1, <4>1, <4>2 DEF RequestsInv
      <3>4. PartInv(x, h)
        BY <1>5, <2>5, <3>2 DEF PartInv, k
      <3>5. \A i \in 1..Len(t) : PartInv(t[i], h)
        BY <1>2, <2>1, <3>4 DEF FileInv
      <3>6. s2.ExpectedSentenceNum = h.num + 1 /\ s2.CrntFileTransferPos = Len(h.got) + 1
        BY <1>5, <2>5, <3>2 DEF k
      <3>7. QED
        BY <1>0, <1>4, <1>5, <3>1, <3>2, <3>3, <3>4, <3>5, <3>6 DEF FileInv
    <2>6. CASE /\ Synced(c, s) /\ s.ExpectedSentenceNum <= m.num /\ x.kind = "FIL" /\ m.tag = "CFI"
               /\ s.CrntFileTransferPos < NChunks =>
                    x.chunk = s.CrntFileTransferPos + 1 /\ s2.CrntFileTransferPos = s.CrntFileTransferPos + 1
      <3>1. h.step = "CFI"
        BY <1>6, <1>13, <2>6 DEF RequestInv
      <3>2. s.ExpectedSentenceNum = h.num /\ m.num = h.num /\ s.CrntFileTransferPos = k
        BY <1>4, <2>1, <2>2, <2>6, <3>1 DEF FileInv, k
      <3>3. k < NChunks
        BY <1>9, <3>1 DEF GotInv, k
      <3>4. PartInv(x, h)
        BY <1>5, <2>6, <3>2, <3>3 DEF PartInv, k
      <3>5. \A i \in 1..Len(t) : PartInv(t[i], h)
        BY <1>2, <2>1, <3>4 DEF FileInv
      <3>6. s2.ExpectedSentenceNum = h.num + 1 /\ s2.CrntFileTransferPos = Len(h.got) + 1
        BY <1>5, <2>6, <3>2, <3>3 DEF k
      <3>7. QED
        BY <1>0, <1>4, <1>5, <3>1, <3>2, <3>4, <3>5, <3>6 DEF FileInv
    <2>7. QED
      BY <2>3, <2>4, <2>5, <2>6 DEF Confirmed, m
  <1>14. QED
    BY <1>8, <1>9, <1>12, <1>13 DEF TransferInv, t, d
LEMMA ReplyIsOne ==
  ASSUME NEW reply, IsReply(reply), reply # <<>>
  PROVE  \E x \in Responses : reply = <<x>>
  <1> DEFINE n == Len(reply)
  <1>1. reply \in Seq(Responses) /\ n <= 1
    BY DEF IsReply
  <1>2. n = 1
    <2>1. n \in Nat \ {0}
      BY <1>1, EmptySeq
    <2> HIDE DEF n
    <2>2. QED
      BY <1>1, <2>1
  <1>3. reply[1] \in Responses
    <2>1. 1 \in 1..n
      <3> HIDE DEF n
      <3>1. QED
        BY <1>2
    <2>2. QED
      BY ONLY <1>1, <2>1, ElementOfSeq
  <1>4. <<reply[1]>> \in Seq(Responses) /\ Len(<<reply[1]>>) = 1 /\ <<reply[1]>>[1] = reply[1]
    BY <1>3
  <1>5. reply = <<reply[1]>>
    BY <1>1, <1>2, <1>4, SeqEqual
  <1>6. QED
    BY <1>3, <1>5


\* A host that waits for no answer to a login or for a part has no part in this.
LEMMA NoTransfer ==
  ASSUME NEW c \in Channels, NEW s \in Sessions, NEW last, NEW dev, NEW host, NEW h,
         TransferInv(c, s, last, dev, host, h), h.step \notin {"GDT", "LGN", "GFI", "CFI"},
         NEW s2 \in Sessions, s2.UserLoggedOn => s2.ActiveChannel # "NONE", NEW last2, KeptInv(c, s2, last2), NEW host2
  PROVE  TransferInv(c, s2, last2, dev, host2, h)
  BY DEF TransferInv, LoginInv

\* Whether the output buffer is emptied on the way or not.
LEMMA Processed ==
  ASSUME NEW c \in Channels, NEW s \in Sessions, NEW last, IsReply(last), NEW dev \in Seq(Requests), NEW host \in Seq(Responses),
         NEW h \in HostStates, TransferInv(c, s, last, dev, host, h), dev # <<>>,
         NEW r \in ProcessSentence(s, last, c, Head(dev)), NEW host2 \in Seq(Responses), host2 = host \/ r.emptied
  PROVE  TransferInv(c, r.session, IF r.reply = <<>> THEN last ELSE r.reply, Tail(dev), host2 \o r.reply, h)
  <1> DEFINE m == Head(dev)
             d == Tail(dev)
             last2 == IF r.reply = <<>> THEN last ELSE r.reply
  <1>1. m \in Requests /\ d \in Seq(Requests) /\ RequestInv(m, h)
    BY TailOf DEF TransferInv, RequestsInv
  <1>2. ResultTyped(r)
    BY <1>1, ProcessSentenceTyped
  <1>3. r.session \in Sessions /\ IsReply(r.reply)
    BY <1>2 DEF ResultTyped
  <1>4. TransferInv(c, s, last, d, host, h)
    BY RequestTaken
  <1>5. Outcome(c, s, last, m, r)
    BY <1>1, Answered DEF TransferInv, RequestInv
  <1>6. r.session.UserLoggedOn => r.session.ActiveChannel # "NONE"
    <2>1. c # "NONE"
      BY DEF Channels
    <2>2. QED
      BY <1>5, <2>1 DEF Outcome, Aside, TransferInv, Confirmed, Active
  <1>7. host \o <<>> = host
    OBVIOUS
  <1> HIDE DEF m, d
  <1>8. ASSUME m.tag \in {"LOF", "SEP"}, ~Active(c, r.session), ~r.session.UserLoggedOn
        PROVE  TransferInv(c, r.session, last2, d, host2 \o r.reply, h)
    <2>1. h.step \notin {"GDT", "LGN", "GFI", "CFI"}
      BY <1>1, <1>8 DEF RequestInv
    <2>2. KeptInv(c, r.session, last2)
      BY <1>8 DEF KeptInv
    <2>3. QED
      BY <1>3, <1>4, <1>8, <2>1, <2>2, NoTransfer
  <1>9. ASSUME Aside(c, s, last, r.session, last), IsPlain(r.reply)
        PROVE  TransferInv(c, r.session, last2, d, host \o r.reply, h)
    <2>1. CASE r.reply = <<>>
      BY <1>1, <1>3, <1>4, <1>7, <1>9, <2>1, SessionAside
    <2>2. CASE r.reply # <<>>
      <3>1. PICK x \in Responses : r.reply = <<x>> /\ x.kind \notin {"EOK", "FIL"}
        BY <1>9, <2>2 DEF IsPlain
      <3>2. <<x>>[1] = x
        OBVIOUS
      <3>3. Aside(c, s, last, r.session, r.reply)
        BY <1>9, <3>1, <3>2 DEF Aside, Is
      <3>4. TransferInv(c, r.session, r.reply, d, host, h)
        BY <1>1, <1>3, <1>4, <3>3, SessionAside
      <3>5. TransferInv(c, r.session, r.reply, d, host \o <<x>>, h)
        BY <1>1, <1>3, <3>1, <3>4, PlainResponse
      <3>6. QED
        BY <2>2, <3>1, <3>5
    <2>3. QED
      BY <2>1, <2>2
  <1>10. ASSUME r.session = s, Active(c, s), r.reply = last, Again(s, m)
         PROVE  TransferInv(c, r.session, last2, d, host \o r.reply, h)
    <2>1. CASE last = <<>>
      BY <1>4, <1>7, <1>10, <2>1
    <2>2. CASE last # <<>>
      <3>1. PICK x \in Responses : last = <<x>>
        BY <2>2, ReplyIsOne
      <3>2. TransferInv(c, s, <<x>>, dev, host \o <<x>>, h)
        BY <1>10, <3>1, Repeated DEF m
      <3>3. host \o <<x>> \in Seq(Responses)
        OBVIOUS
      <3>4. TransferInv(c, s, <<x>>, d, host \o <<x>>, h)
        BY <3>2, <3>3, RequestTaken DEF d
      <3>5. QED
        BY <1>10, <2>2, <3>1, <3>4
    <2>3. QED
      BY <2>1, <2>2
  <1>11. ASSUME NEW x, r.reply = <<x>>, Confirmed(c, s, m, r.session, x)
         PROVE  TransferInv(c, r.session, last2, d, host \o r.reply, h)
    <2>1. TransferInv(c, r.session, <<x>>, d, host \o <<x>>, h)
      BY <1>3, <1>6, <1>11, AcceptedStep DEF m, d
    <2>2. last2 = <<x>>
      BY <1>11
    <2>3. QED
      BY <1>11, <2>1, <2>2
  <1>12. ~r.emptied => host2 = host
    OBVIOUS
  <1>13. QED
    BY <1>5, <1>8, <1>9, <1>10, <1>11, <1>12 DEF Outcome, d

\* The response to the first request of an Ethernet connection does not fit
\* behind the keep-alive bytes of the last one: it is dropped, and not stored.
LEMMA Dropped ==
  ASSUME NEW s \in Sessions, NEW last, IsReply(last), NEW dev \in Seq(Requests), NEW host,
         NEW h \in HostStates, TransferInv("ETHERNET", s, last, dev, host, h), dev # <<>>,
         NEW r \in ProcessSentence(s, last, "ETHERNET", Head(dev)),
         Head(dev).num = 1, h.step \in {"off", "GDT", "LGN"},
         \A i \in 1..Len(dev) : dev[i].ok /\ ~dev[i].enc,
         h.step = "LGN" => Head(dev).tag = "LGN" /\ h.num = 1 /\ ~h.enc
  PROVE  TransferInv("ETHERNET", r.session, last, Tail(dev), host, h)
  <1> DEFINE c == "ETHERNET"
             m == Head(dev)
             d == Tail(dev)
  <1>1. m \in Requests /\ d \in Seq(Requests) /\ RequestInv(m, h) /\ c \in Channels
    BY TailOf DEF TransferInv, RequestsInv, Channels
  <1>2. \A i \in 1..Len(d) : d[i].ok /\ ~d[i].enc
    BY TailOf
  <1>3. ~m.enc
    BY TailOf
  <1>4. r.session \in Sessions
    <2>1. ResultTyped(r)
      BY <1>1, ProcessSentenceTyped
    <2>2. QED
      BY <2>1 DEF ResultTyped
  <1>5. TransferInv(c, s, last, d, host, h)
    BY <1>1, RequestTaken
  <1>6. Outcome(c, s, last, m, r)
    BY <1>1, Answered DEF TransferInv, RequestInv
  <1> HIDE DEF m, d
  <1>7. CASE m.tag \in {"LOF", "SEP"} /\ ~Active(c, r.session) /\ ~r.session.UserLoggedOn
    <2>1. h.step \notin {"GDT", "LGN", "GFI", "CFI"}
      BY <1>1, <1>7 DEF RequestInv
    <2>2. KeptInv(c, r.session, last)
      BY <1>7 DEF KeptInv
    <2>3. QED
      BY <1>1, <1>4, <1>5, <1>7, <2>1, <2>2, NoTransfer DEF d
  <1>8. CASE Aside(c, s, last, r.session, last)
    BY <1>1, <1>4, <1>5, <1>8, SessionAside DEF d
  <1>9. CASE r.session = s
    BY <1>5, <1>9 DEF d
  <1>10. ASSUME NEW x, Confirmed(c, s, m, r.session, x)
         PROVE  TransferInv(c, r.session, last, d, host, h)
    <2>1. /\ r.session.ExpectedSentenceNum = 2 /\ Active(c, r.session)
          /\ m.tag = "LGN" => ~r.session.UseEncryption
      BY <1>3, <1>10 DEF Confirmed, m
    <2>2. KeptInv(c, r.session, last)
      BY <2>1 DEF KeptInv
    <2>3. h.step = "LGN" => Clean(c, r.session, d, h) /\ r.session.ExpectedSentenceNum <= h.num + 1
      BY <1>2, <2>1 DEF Clean, m
    <2>4. LoginInv(c, r.session, last, d, host, h)
      BY <1>5, <2>3 DEF TransferInv, LoginInv
    <2>5. r.session.UserLoggedOn => r.session.ActiveChannel # "NONE"
      BY <2>1 DEF Active
    <2>6. QED
      BY <1>5, <2>2, <2>4, <2>5 DEF TransferInv
  <1>11. QED
    BY <1>6, <1>7, <1>8, <1>9, <1>10 DEF Outcome, d

-----------------------------------------------------------------------------
(* The host's steps.                                                         *)

\* A host begins on a quiet line, but for a response that an earlier connection
\* may have left in the output buffer.
LEMMA HostStarted ==
  ASSUME NEW c \in Channels, NEW s \in Sessions, NEW last, NEW dev, NEW host \in Seq(Responses), NEW h,
         TransferInv(c, s, last, dev, host, h), dev = <<>>, Len(host) <= 1,
         \A i \in 1..Len(host) :
           host[i].kind = "EOK" /\ Active(c, s) =>
             /\ ~Is(last, "FIL")
             /\ s.ExpectedSentenceNum <= host[i].num + 1 \/ s.ExpectedSentenceNum <= 2,
         NEW g \in HostStates, g.step \in {"GDT", "LGN"}, g.num = 1, g.got = <<>>, ~g.enc,
         g.step = "LGN" => g.arg # "missing"
  PROVE  TransferInv(c, s, last, dev, host, g)
  <1>1. Len(host) \in Nat
    OBVIOUS
  <1>2. \A i, j \in 1..Len(host) : ~(i < j) /\ i \notin 2..Len(host)
    BY <1>1
  <1>3. \A i \in 2..Len(host) : i \in 1..Len(host)
    BY <1>1
  <1>4. s.ExpectedSentenceNum \in Nat
    BY DEF Sessions
  <1>5. LoginInv(c, s, last, dev, host, g)
    BY <1>2, <1>3, <1>4 DEF LoginInv
  <1>6. QED
    BY <1>5 DEF TransferInv, RequestsInv, GotInv

LEMMA HostStopped ==
  ASSUME NEW c \in Channels, NEW s \in Sessions, NEW last, NEW dev \in Seq(Requests), NEW host, NEW h,
         TransferInv(c, s, last, dev, host, h),
         NEW g \in HostStates, g.step = "off", \A i \in 1..Len(g.got) : g.got[i] = i, NEW host2
  PROVE  TransferInv(c, s, last, dev, host2, g)
  <1>1. \A i \in 1..Len(dev) : RequestInv(dev[i], g)
    BY DEF TransferInv, RequestsInv, RequestInv
  <1>2. QED
    BY <1>1 DEF TransferInv, RequestsInv, LoginInv, GotInv

LEMMA HostSent ==
  ASSUME NEW c \in Channels, NEW s \in Sessions, NEW last, NEW dev \in Seq(Requests), NEW host, NEW h \in HostStates,
         TransferInv(c, s, last, dev, host, h),
         NEW m \in Requests, m.ok, m.tag # "unreadable",
         \/ h.step # "off" /\ m.tag = h.step /\ m.num = h.num /\ m.arg = h.arg /\ m.enc = h.enc
         \/ h.step = "off" /\ m.tag = "LOF"
  PROVE  TransferInv(c, s, last, Append(dev, m), host, h)
  <1> DEFINE d == Append(dev, m)
             n == Len(dev) + 1
  <1>1. /\ Len(d) = n /\ Len(dev) \in Nat /\ d[n] = m
        /\ \A i \in 1..Len(dev) : d[i] = dev[i]
    OBVIOUS
  <1>2. \A i \in 1..Len(d) : (i \in 1..Len(dev) /\ d[i] = dev[i]) \/ (i = n /\ d[i] = m)
    BY <1>1
  <1>3. m.num \in Nat /\ h.num \in Nat /\ h.enc \in BOOLEAN
    BY DEF Requests, Sentences, HostStates
  <1> HIDE DEF d
  <1>4. RequestsInv(dev, h)
    BY DEF TransferInv
  <1>5. RequestInv(m, h)
    BY <1>3, <1>4 DEF RequestInv, RequestsInv
  <1>6. \A i, j \in 1..Len(d) : h.step = "GFI" /\ i < j /\ d[i].tag = "GFI" => d[j].tag = "GFI"
    <2> SUFFICES ASSUME NEW i \in 1..Len(d), NEW j \in 1..Len(d), h.step = "GFI", i < j, d[i].tag = "GFI"
                 PROVE  d[j].tag = "GFI"
      OBVIOUS
    <2>1. i \in 1..Len(dev) /\ d[i] = dev[i]
      BY <1>1, <1>2
    <2>2. QED
      BY <1>2, <1>4, <2>1 DEF RequestsInv
  <1>7. RequestsInv(d, h)
    BY <1>2, <1>4, <1>5, <1>6 DEF RequestsInv
  <1>8. h.step # "off" /\ Clean(c, s, dev, h) => Clean(c, s, d, h)
    BY <1>2 DEF Clean
  <1>9. Unasked(c, s, dev, h) => Unasked(c, s, d, h)
    BY <1>8 DEF Unasked
  <1>10. LoginInv(c, s, last, d, host, h)
    BY <1>8 DEF TransferInv, LoginInv
  <1>11. h.step \in {"GFI", "CFI"} => FileInv(c, s, last, d, host, h)
    <2> SUFFICES ASSUME h.step \in {"GFI", "CFI"}
                 PROVE  FileInv(c, s, last, d, host, h)
      OBVIOUS
    <2>1. FileInv(c, s, last, dev, host, h)
      BY DEF TransferInv
    <2>2. h.step = "GFI" => m.tag = "GFI"
      OBVIOUS
    <2>3. h.step = "GFI" /\ (\A i \in 1..Len(dev) : dev[i].tag = "GFI") => \A i \in 1..Len(d) : d[i].tag = "GFI"
      BY <1>2, <2>2
    <2> HIDE DEF Unasked, PartInv, HasPart
    <2>4. QED
      BY <1>9, <2>1, <2>3 DEF FileInv
  <1>12. QED
    BY <1>7, <1>10, <1>11 DEF TransferInv, d

\* A request with the next number is none that has been sent before.
LEMMA NextRequest ==
  ASSUME NEW dev \in Seq(Requests), NEW h \in HostStates, NEW g \in HostStates, RequestsInv(dev, h),
         h.step # "off", g.num = h.num + 1, g.step = "LGN" => g.arg # "missing",
         \/ h.step = "GDT" /\ g.step = "LGN"
         \/ h.step = "LGN" /\ g.step \in {"GFI", "SEP"}
         \/ h.step = "GFI" /\ g.step = "CFI" /\ \A i \in 1..Len(dev) : dev[i].tag = "GFI"
         \/ h.step = "CFI" /\ g.step = "CFI"
  PROVE  RequestsInv(dev, g)
  <1>1. ASSUME NEW i \in 1..Len(dev)
        PROVE  RequestInv(dev[i], g) /\ (h.step = "LGN" => dev[i].tag # "GFI")
    <2>1. RequestInv(dev[i], h) /\ dev[i].num \in Nat /\ h.num \in Nat
      BY DEF RequestsInv, Requests, Sentences, HostStates
    <2>2. dev[i].ok => dev[i].num < g.num
      BY <2>1 DEF RequestInv
    <2>3. QED
      BY <2>1, <2>2 DEF RequestInv
  <1>2. g.num >= 1
    BY DEF HostStates
  <1>3. QED
    BY <1>1, <1>2 DEF RequestsInv

LEMMA ToLogin ==
  ASSUME NEW c \in Channels, NEW s \in Sessions, NEW last, NEW dev \in Seq(Requests), NEW host \in Seq(Responses), NEW h \in HostStates,
         TransferInv(c, s, last, dev, host, h), h.step = "GDT", host # <<>>,
         NEW g \in HostStates, g.step = "LGN", g.num = h.num + 1, g.arg # "missing", g.got = h.got
  PROVE  TransferInv(c, s, last, dev, Tail(host), g)
  <1> DEFINE t == Tail(host)
  <1>1. \A i \in 1..Len(t) : i + 1 \in 1..Len(host) /\ i + 1 \in 2..Len(host) /\ t[i] = host[i + 1]
    BY TailOf
  <1> HIDE DEF t
  <1>2. RequestsInv(dev, g)
    BY NextRequest DEF TransferInv
  <1>3. \A i \in 1..Len(t) : t[i].kind # "EOK"
    BY <1>1 DEF TransferInv, LoginInv
  <1>4. LoginInv(c, s, last, dev, t, g) /\ GotInv(g)
    BY <1>3 DEF TransferInv, LoginInv, GotInv
  <1>5. QED
    BY <1>2, <1>4 DEF TransferInv, t

LEMMA ToCommand ==
  ASSUME NEW c \in Channels, NEW s \in Sessions, NEW last, IsReply(last), NEW dev \in Seq(Requests), NEW host \in Seq(Responses),
         NEW h \in HostStates,
         TransferInv(c, s, last, dev, host, h), h.step = "LGN", host # <<>>,
         Head(host).kind = "EOK", Head(host).num = h.num,
         NEW g \in HostStates, g.step \in {"GFI", "SEP"}, g.num = h.num + 1, g.enc = h.enc, g.got = h.got
  PROVE  TransferInv(c, s, last, dev, Tail(host), g)
  <1> DEFINE t == Tail(host)
  <1>1. /\ \A i \in 1..Len(t) : i + 1 \in 1..Len(host) /\ 1 < i + 1 /\ t[i] = host[i + 1]
        /\ 1 \in 1..Len(host) /\ Head(host) = host[1]
    BY TailOf
  <1>2. s.ExpectedSentenceNum \in Nat /\ h.num \in Nat
    BY DEF Sessions, HostStates
  <1> HIDE DEF t
  <1>3. LoginInv(c, s, last, dev, host, h)
    BY DEF TransferInv
  <1>4. \A i \in 1..Len(t) : t[i].kind # "FIL"
    BY <1>1, <1>3 DEF LoginInv
  <1>5. Active(c, s) => (Is(last, "FIL") => Clean(c, s, dev, g)) /\ s.ExpectedSentenceNum <= g.num
    BY <1>1, <1>3 DEF LoginInv, Clean
  <1>6. RequestsInv(dev, g)
    BY NextRequest DEF TransferInv
  <1>7. GotInv(g)
    BY DEF TransferInv, GotInv
  <1>8. FileInv(c, s, last, dev, t, g) \/ g.step = "SEP"
    <2> SUFFICES ASSUME g.step = "GFI"
                 PROVE  FileInv(c, s, last, dev, t, g)
      OBVIOUS
    <2>1. s.ExpectedSentenceNum \in Nat /\ g.num \in Nat
      BY <1>2
    <2>2. Active(c, s) /\ Is(last, "FIL") => Unasked(c, s, dev, g)
      BY <1>5 DEF Unasked
    <2>3. Active(c, s) /\ last # <<>> => PartInv(last[1], g) \/ Unasked(c, s, dev, g)
      BY <2>2 DEF PartInv, Is
    <2>4. ~HasPart(t)
      BY <1>4 DEF HasPart
    <2>5. QED
      BY <1>4, <1>5, <2>1, <2>2, <2>3, <2>4 DEF FileInv, PartInv, Synced
  <1>9. QED
    BY <1>6, <1>7, <1>8 DEF TransferInv, LoginInv, t

\* The first response obeys the invariants of the transfer.
LEMMA HeadPart ==
  ASSUME NEW c, NEW s, NEW last, NEW dev, NEW host \in Seq(Responses), NEW h,
         TransferInv(c, s, last, dev, host, h), h.step \in {"GFI", "CFI"}, host # <<>>
  PROVE  PartInv(Head(host), h) /\ GotInv(h)
  <1>1. 1 \in 1..Len(host) /\ Head(host) = host[1]
    BY TailOf
  <1>2. FileInv(c, s, last, dev, host, h) /\ GotInv(h)
    BY DEF TransferInv
  <1>3. \A i \in 1..Len(host) : PartInv(host[i], h)
    BY ONLY <1>2 DEF FileInv
  <1>4. QED
    BY ONLY <1>1, <1>2, <1>3

\* The awaited part of the file is the next one.
LEMMA PartReceived ==
  ASSUME NEW h \in HostStates, NEW x, PartInv(x, h), GotInv(h), x.kind = "FIL", x.num = h.num
  PROVE  /\ x.chunk = Len(h.got) + 1
         /\ \A i \in 1..Len(Append(h.got, x.chunk)) : Append(h.got, x.chunk)[i] = i
  <1>1. h.num \in Nat /\ h.got \in Seq(0..NChunks)
    BY DEF HostStates
  <1>2. x.chunk = Len(h.got) + 1
    <2>1. ~(x.num < h.num)
      BY ONLY <1>1, x.num = h.num
    <2>2. QED
      BY ONLY <2>1, PartInv(x, h), x.kind = "FIL" DEF PartInv
  <1>3. \A i \in 1..Len(h.got) : h.got[i] = i
    BY ONLY GotInv(h) DEF GotInv
  <1> DEFINE q == h.got
             chunk == x.chunk
  <1>4. q \in Seq(0..NChunks) /\ chunk = Len(q) + 1 /\ \A i \in 1..Len(q) : q[i] = i
    BY ONLY <1>1, <1>2, <1>3
  <1> HIDE DEF q, chunk
  <1>5. \A i \in 1..Len(Append(q, chunk)) : Append(q, chunk)[i] = i
    BY ONLY <1>4
  <1>6. QED
    BY ONLY <1>2, <1>5 DEF q, chunk

LEMMA ToNextPart ==
  ASSUME NEW c \in Channels, NEW s \in Sessions, NEW last, IsReply(last), NEW dev \in Seq(Requests), NEW host \in Seq(Responses),
         NEW h \in HostStates,
         TransferInv(c, s, last, dev, host, h), h.step \in {"GFI", "CFI"}, host # <<>>,
         Head(host).kind = "FIL", Head(host).num = h.num, Head(host).chunk \in 1..(NChunks - 1),
         NEW g \in HostStates, g.step = "CFI", g.num = h.num + 1, g.got = Append(h.got, Head(host).chunk)
  PROVE  TransferInv(c, s, last, dev, Tail(host), g)
  <1> DEFINE t == Tail(host)
             k == Len(h.got)
  <1>1. /\ \A i \in 1..Len(t) : i + 1 \in 1..Len(host) /\ t[i] = host[i + 1] /\ t[i] \in Responses
        /\ 1 \in 1..Len(host) /\ Head(host) = host[1]
    BY TailOf
  <1>2. /\ s.ExpectedSentenceNum \in Nat /\ h.num \in Nat /\ k \in Nat /\ h.got \in Seq(0..NChunks)
        /\ s.CrntFileTransferPos \in Nat /\ NChunks \in Nat
    BY ProtocolAssumption DEF Sessions, HostStates
  <1>0. PartInv(Head(host), h) /\ GotInv(h)
    BY HeadPart
  <1>3. Head(host).chunk = k + 1 /\ Len(g.got) = k + 1 /\ k + 1 < NChunks
    <2>1. Head(host).chunk = k + 1
      BY <1>0, PartReceived
    <2>2. Head(host).chunk \in 0..NChunks /\ Head(host).chunk < NChunks
      <3> DEFINE chunk == Head(host).chunk
      <3>1. chunk \in 1..(NChunks - 1)
        OBVIOUS
      <3> HIDE DEF chunk
      <3>2. chunk \in 0..NChunks /\ chunk < NChunks
        BY <1>2, <3>1
      <3>3. QED
        BY <3>2 DEF chunk
    <2>3. Len(g.got) = k + 1
      BY <1>2, <2>2, AppendProperties
    <2>4. QED
      BY <2>1, <2>2, <2>3
  <1> HIDE DEF t, k
  <1>4. FileInv(c, s, last, dev, host, h)
    BY DEF TransferInv
  <1>5. h.step = "GFI" => \A i \in 1..Len(dev) : dev[i].tag = "GFI"
    BY <1>1, <1>4 DEF FileInv, HasPart
  <1>6. RequestsInv(dev, g)
    BY <1>5, NextRequest DEF TransferInv
  <1>7. GotInv(g)
    <2>1. \A i \in 1..Len(g.got) : g.got[i] = i
      <3>1. \A i \in 1..Len(Append(h.got, Head(host).chunk)) : Append(h.got, Head(host).chunk)[i] = i
        BY <1>0, PartReceived
      <3>2. QED
        BY ONLY <3>1, g.got = Append(h.got, Head(host).chunk)
    <2>2. g.step = "CFI"
      OBVIOUS
    <2>3. QED
      BY ONLY <1>3, <2>1, <2>2 DEF GotInv
  <1>8. FileInv(c, s, last, dev, t, g)
    <2>1. ASSUME NEW x \in Responses, PartInv(x, h)
          PROVE  PartInv(x, g) /\ (x.kind = "FIL" => x.num < g.num)
      <3> SUFFICES ASSUME x.kind = "FIL" PROVE PartInv(x, g) /\ x.num < g.num
        BY DEF PartInv
      <3>1. x.num \in Nat
        BY ProtocolAssumption DEF Responses
      <3>2. x.num < h.num \/ x.num = h.num
        BY <2>1 DEF PartInv
      <3>3. x.num < g.num
        <4>1. g.num = h.num + 1
          OBVIOUS
        <4>2. QED
          BY ONLY <1>2, <3>1, <3>2, <4>1
      <3>4. g.step = "CFI"
        OBVIOUS
      <3>5. QED
        BY ONLY <3>3, <3>4 DEF PartInv
    <2>2. \A i \in 1..Len(t) : PartInv(t[i], g) /\ (t[i].kind = "FIL" => t[i].num < g.num)
      BY <1>1, <1>4, <2>1 DEF FileInv
    <2>0. Active(c, s) => ~Unasked(c, s, dev, h)
      <3>1. h.step = "GFI" /\ Active(c, s) => s.ExpectedSentenceNum = h.num + 1
        BY <1>1, <1>4 DEF FileInv, HasPart
      <3>2. QED
        BY <1>2, <3>1 DEF Unasked
    <2>3. /\ Active(c, s) /\ last # <<>> => PartInv(last[1], g)
          /\ Active(c, s) /\ Is(last, "FIL") => s.ExpectedSentenceNum = last[1].num + 1
      <3>1. last # <<>> => last[1] \in Responses
        BY DEF IsReply
      <3>2. QED
        BY <1>4, <2>0, <2>1, <3>1 DEF FileInv
    <2>4. Synced(c, s) => s.ExpectedSentenceNum = g.num /\ s.CrntFileTransferPos = Len(g.got)
      <3>1. Synced(c, s) => s.ExpectedSentenceNum = h.num + 1
        BY <1>1, <1>4 DEF FileInv
      <3>2. Synced(c, s) => s.CrntFileTransferPos = Len(h.got) + 1
        BY <1>4, <3>1 DEF FileInv
      <3>3. QED
        BY <1>3, <3>1, <3>2 DEF k
    <2>5. Active(c, s) => s.ExpectedSentenceNum <= g.num
      BY <1>4 DEF FileInv
    <2>6. g.num \in Nat /\ \A i \in 1..Len(t) : ~(t[i].kind = "FIL" /\ t[i].num = g.num)
      <3>1. g.num \in Nat
        BY <1>2, SMTT(20)
      <3>2. ASSUME NEW i \in 1..Len(t), t[i].kind = "FIL" PROVE t[i].num # g.num
        <4>1. t[i].num < g.num
          BY <2>2, <3>2
        <4>2. QED
          BY <3>1, <4>1
      <3>3. QED
        BY <3>1, <3>2
    <2>7. g.step = "CFI" /\ (Synced(c, s) => Active(c, s))
      BY DEF Synced
    <2>8. ~(s.ExpectedSentenceNum = g.num + 1) \/ ~Synced(c, s)
      BY <1>2, <2>4
    <2>9. s.ExpectedSentenceNum <= g.num => s.ExpectedSentenceNum <= g.num + 1
      BY <1>2, <2>6, SMTT(20)
    <2>10. QED
      BY <1>2, <2>2, <2>3, <2>4, <2>5, <2>6, <2>7, <2>8, <2>9 DEF FileInv
  <1>9. QED
    BY <1>6, <1>7, <1>8 DEF TransferInv, LoginInv, t
-----------------------------------------------------------------------------
(* What the host reads of what is written in several parts.                  *)

LEMMA AppendAfter ==
  ASSUME NEW p \in Seq(Bytes), NEW q \in Seq(Bytes), NEW x \in Bytes
  PROVE  Append(p \o q, x) = p \o Append(q, x)
  <1>1. p \o q \in Seq(Bytes) /\ <<x>> \in Seq(Bytes)
    OBVIOUS
  <1>2. Append(p \o q, x) = (p \o q) \o <<x>> /\ Append(q, x) = q \o <<x>>
    BY <1>1, AppendIsConcat
  <1>3. ASSUME NEW r \in Seq(Bytes)
        PROVE  (p \o q) \o r = p \o (q \o r)
    BY ConcatAssociative, SMTT(20)
  <1>4. QED
    BY <1>1, <1>2, <1>3

LEMMA ResponsesJoin ==
  ASSUME NEW p \in Seq(Responses), NEW q \in Seq(Responses), NEW r \in Seq(Responses)
  PROVE  (p \o q) \o r = p \o (q \o r)
  BY ConcatAssociative, SMTT(20)

LEMMA ReadableJoin ==
  ASSUME NEW a \in Seq(Bytes), NEW b \in Seq(Bytes)
  PROVE  Readable(a \o b) = Readable(a) \o Readable(b)
  <1> DEFINE n == Len(a)
             k == Len(b)
             ab == a \o b
  <1>1. n \in Nat /\ k \in Nat
    OBVIOUS
  <1>2. /\ ab \in Seq(Bytes) /\ Len(ab) = n + k
        /\ \A i \in 1..n : i \in 1..(n + k) /\ ab[i] = a[i]
        /\ \A j \in 1..k : n + j \in 1..(n + k) /\ ab[n + j] = b[j]
    OBVIOUS
  <1>3. PICK f :
          /\ Readable(a) = f[n] /\ f[0] = <<>>
          /\ \A i \in 1..n : f[i] = IF a[i].kind = Space.kind THEN f[i - 1] ELSE Append(f[i - 1], a[i])
    BY ReadableSteps DEF Bytes
  <1>4. PICK g :
          /\ Readable(b) = g[k] /\ g[0] = <<>>
          /\ \A i \in 0..k : g[i] \in Seq(Responses)
          /\ \A i \in 1..k : g[i] = IF b[i].kind = Space.kind THEN g[i - 1] ELSE Append(g[i - 1], b[i])
    BY ReadableSteps DEF Bytes
  <1> HIDE DEF ab
  <1>5. PICK up :
          /\ Readable(ab) = up[Len(ab)] /\ up[0] = <<>>
          /\ \A i \in 1..Len(ab) :
               up[i] = IF ab[i].kind = Space.kind THEN up[i - 1] ELSE Append(up[i - 1], ab[i])
    <2>1. ab \in Seq(Responses \cup {Space})
      BY <1>2 DEF Bytes
    <2>2. QED
      BY <2>1, ReadableUpTo
  <1>6. Readable(a) \in Seq(Responses)
    BY ReadableTyped DEF Bytes
  <1> HIDE DEF n, k
  <1>7. up[n] = f[n]
    <2> DEFINE S == {i \in 0..n : up[i] = f[i]}
    <2>1. 0 \in S
      BY <1>1, <1>3, <1>5
    <2>2. ASSUME NEW i \in 0..n, i \in S, i < n
          PROVE  i + 1 \in S
      <3>1. i + 1 \in 1..n /\ i + 1 - 1 = i
        BY <1>1, <2>2
      <3>2. i + 1 \in 1..Len(ab) /\ ab[i + 1] = a[i + 1] /\ i + 1 \in 0..n
        BY <1>1, <1>2, <3>1
      <3>3. up[i + 1] = IF a[i + 1].kind = Space.kind THEN up[i] ELSE Append(up[i], a[i + 1])
        <4> DEFINE p == i + 1
        <4>1. p \in 1..Len(ab) /\ p - 1 = i /\ ab[p] = a[p]
          BY <3>1, <3>2
        <4> HIDE DEF p
        <4>2. up[p] = IF a[p].kind = Space.kind THEN up[i] ELSE Append(up[i], a[p])
          BY <1>5, <4>1
        <4>3. QED
          BY <4>2 DEF p
      <3>4. f[i + 1] = IF a[i + 1].kind = Space.kind THEN f[i] ELSE Append(f[i], a[i + 1])
        BY <1>3, <3>1
      <3>5. up[i] = f[i]
        BY <2>2
      <3>6. QED
        BY <3>2, <3>3, <3>4, <3>5
    <2>3. \A i \in 0..n : i \in S
      <3> HIDE DEF S
      <3>1. QED
        BY <1>1, <2>1, <2>2, UpTo
    <2>4. QED
      BY <1>1, <2>3
  <1>8. up[n + k] = f[n] \o g[k]
    <2> DEFINE S == {j \in 0..k : up[n + j] = f[n] \o g[j]}
    <2>1. 0 \in S
      <3>1. f[n] \o <<>> = f[n]
        BY <1>3, <1>6
      <3>2. n + 0 = n /\ 0 \in 0..k
        BY <1>1
      <3>3. QED
        BY <1>4, <1>7, <3>1, <3>2
    <2>2. ASSUME NEW j \in 0..k, j \in S, j < k
          PROVE  j + 1 \in S
      <3>1. j + 1 \in 1..k /\ j + 1 - 1 = j /\ n + (j + 1) - 1 = n + j /\ n + (j + 1) \in 1..(n + k)
        BY <1>1, <2>2
      <3>2. ab[n + (j + 1)] = b[j + 1]
        BY <1>2, <3>1
      <3>3. up[n + (j + 1)] = IF b[j + 1].kind = Space.kind THEN up[n + j] ELSE Append(up[n + j], b[j + 1])
        <4> DEFINE p == n + (j + 1)
        <4>1. p \in 1..(n + k) /\ p - 1 = n + j /\ ab[p] = b[j + 1]
          BY <1>1, <3>1, <3>2
        <4> HIDE DEF p
        <4>2. up[p] = IF b[j + 1].kind = Space.kind THEN up[n + j] ELSE Append(up[n + j], b[j + 1])
          BY <1>2, <1>5, <4>1
        <4>3. QED
          BY <4>2 DEF p
      <3>4. g[j + 1] = IF b[j + 1].kind = Space.kind THEN g[j] ELSE Append(g[j], b[j + 1])
        BY <1>4, <3>1
      <3>5. Append(f[n] \o g[j], b[j + 1]) = f[n] \o Append(g[j], b[j + 1])
        <4>1. f[n] \in Seq(Bytes) /\ g[j] \in Seq(Bytes)
          BY <1>3, <1>4, <1>6, SeqMonotonic DEF Bytes
        <4>2. b[j + 1] \in Bytes
          <5>1. j + 1 \in 1..Len(b)
            BY <3>1 DEF k
          <5>2. QED
            BY <5>1, ElementOfSeq
        <4>3. QED
          BY <4>1, <4>2, AppendAfter
      <3>6. up[n + j] = f[n] \o g[j]
        BY <2>2
      <3>7. QED
        <4>1. j + 1 \in 0..k
          BY <1>1, <3>1
        <4>2. up[n + (j + 1)] = f[n] \o g[j + 1]
          BY <3>3, <3>4, <3>5, <3>6
        <4>3. QED
          BY <4>1, <4>2
    <2>3. \A j \in 0..k : j \in S
      <3> HIDE DEF S
      <3>1. QED
        BY <1>1, <2>1, <2>2, UpTo
    <2>4. k \in 0..k
      BY <1>1
    <2>5. QED
      BY <2>3, <2>4
  <1>9. QED
    BY <1>2, <1>3, <1>4, <1>5, <1>8 DEF ab

\* With one response at most among the keep-alive bytes it is all that is read.
LEMMA ReadableOne ==
  ASSUME NEW data \in Seq(Bytes),
         \A i, j \in 1..Len(data) : data[i].kind # "space" /\ data[j].kind # "space" => i = j
  PROVE  \/ Readable(data) = <<>>
         \/ \E j \in 1..Len(data) : data[j] \in Responses /\ Readable(data) = <<data[j]>>
  <1> DEFINE n == Len(data)
  <1>1. PICK f :
          /\ Readable(data) = f[n] /\ f[0] = <<>>
          /\ \A i \in 1..n : f[i] = IF data[i].kind = Space.kind THEN f[i - 1] ELSE Append(f[i - 1], data[i])
    BY ReadableSteps DEF Bytes
  <1>2. n \in Nat /\ Space.kind = "space"
    BY DEF Space
  <1>3. \A j \in 1..n : data[j] \in Bytes
    BY ElementOfSeq
  <1> HIDE DEF n
  <1> DEFINE S == {i \in 0..n : f[i] = <<>> \/ \E j \in 1..i : data[j].kind # "space" /\ f[i] = <<data[j]>>}
  <1>4. 0 \in S
    BY <1>1, <1>2
  <1>5. ASSUME NEW i \in 0..n, i \in S, i < n
        PROVE  i + 1 \in S
    <2>1. i + 1 \in 1..n /\ i + 1 - 1 = i /\ i + 1 \in 1..(i + 1) /\ \A j \in 1..i : j \in 1..(i + 1) /\ j \in 1..n /\ j # i + 1
      BY <1>2, <1>5
    <2>2. f[i + 1] = IF data[i + 1].kind = Space.kind THEN f[i] ELSE Append(f[i], data[i + 1])
      BY <1>1, <2>1
    <2>3. CASE data[i + 1].kind = "space"
      BY <1>2, <1>5, <2>1, <2>2, <2>3
    <2>4. CASE data[i + 1].kind # "space"
      <3>1. f[i] = <<>>
        BY <1>5, <2>1, <2>4 DEF n
      <3>2. \A x : Append(<<>>, x) = <<x>>
        OBVIOUS
      <3>3. f[i + 1] = <<data[i + 1]>>
        BY <1>2, <2>2, <2>4, <3>1, <3>2
      <3>4. QED
        BY <2>1, <2>4, <3>3
    <2>5. QED
      BY <2>3, <2>4
  <1>6. \A i \in 0..n : i \in S
    <2> HIDE DEF S
    <2>1. QED
      BY <1>2, <1>4, <1>5, UpTo
  <1>7. f[n] = <<>> \/ \E j \in 1..n : data[j].kind # "space" /\ f[n] = <<data[j]>>
    BY <1>2, <1>6
  <1>8. \A j \in 1..n : data[j].kind # "space" => data[j] \in Responses
    BY <1>2, <1>3 DEF Bytes
  <1>9. QED
    BY <1>1, <1>7, <1>8 DEF n

\* What is left of a buffer follows what is taken of it.
LEMMA LeftBehind ==
  ASSUME NEW T, NEW buffer \in Seq(T)
  PROVE  /\ Taken(buffer) \o Left(buffer) = buffer
         /\ \A i \in 1..Len(Left(buffer)) :
              WriteSize + i \in 1..Len(buffer) /\ Left(buffer)[i] = buffer[WriteSize + i]
         /\ Len(buffer) <= BufSize => Len(Left(buffer)) < BufSize
         /\ buffer = <<>> => Taken(buffer) = <<>>
  <1> DEFINE k == IF Len(buffer) < WriteSize THEN Len(buffer) ELSE WriteSize
             n == Len(buffer)
             t == Taken(buffer)
             l == Left(buffer)
  <1>1. WriteSize \in Nat \ {0} /\ BufSize \in Nat \ {0}
    BY SessionAssumption
  <1>2. k \in 0..n /\ n \in Nat /\ k <= WriteSize
    BY <1>1
  <1>3. t = SubSeq(buffer, 1, k)
    BY DEF Taken
  <1>4. t \in Seq(T) /\ Len(t) = k /\ \A i \in 1..k : t[i] = buffer[i]
    <2> HIDE DEF k, t
    <2>1. QED
      BY <1>2, <1>3
  <1>5. l = SubSeq(buffer, k + 1, n)
    <2>1. l = SubSeq(buffer, Len(t) + 1, n)
      BY DEF Left
    <2> HIDE DEF k, t, l, n
    <2>2. QED
      BY <1>4, <2>1
  <1>6. l \in Seq(T) /\ Len(l) = n - k /\ \A i \in 1..(n - k) : l[i] = buffer[k + i]
    <2> HIDE DEF k, t, l
    <2>1. QED
      BY <1>2, <1>5
  <1>7. t \o l = buffer
    <2> HIDE DEF k, t, l
    <2>1. t \o l \in Seq(T) /\ Len(t \o l) = n
      <3>1. t \o l \in Seq(T) /\ Len(t \o l) = Len(t) + Len(l)
        BY <1>4, <1>6, ConcatProperties
      <3> HIDE DEF n
      <3>2. QED
        BY <1>2, <1>4, <1>6, <3>1
    <2>0. \A i \in 1..(Len(t) + Len(l)) : (t \o l)[i] = IF i <= Len(t) THEN t[i] ELSE l[i - Len(t)]
      BY <1>4, <1>6, ConcatProperties
    <2> HIDE DEF n
    <2>2. \A i \in 1..n : (t \o l)[i] = buffer[i]
      <3> SUFFICES ASSUME NEW i \in 1..n PROVE (t \o l)[i] = buffer[i]
        OBVIOUS
      <3>1. CASE i <= k
        BY <1>2, <1>4, <1>6, <2>0, <3>1
      <3>2. CASE i > k
        <4>1. i - k \in 1..(n - k) /\ k + (i - k) = i
          BY <1>2, <3>2
        <4>2. (t \o l)[i] = l[i - k]
          BY <1>2, <1>4, <1>6, <2>0, <3>2
        <4>3. QED
          BY <1>6, <4>1, <4>2
      <3>3. i <= k \/ i > k
        BY <1>2
      <3>4. QED
        BY <3>1, <3>2, <3>3
    <2>3. QED
      BY <2>1, <2>2, SeqEqual DEF n
  <1>8. n - k > 0 => k = WriteSize
    BY <1>1, <1>2
  <1> HIDE DEF k, t, l
  <1>9. \A i \in 1..Len(l) : WriteSize + i \in 1..n /\ l[i] = buffer[WriteSize + i]
    <2> SUFFICES ASSUME NEW i \in 1..Len(l) PROVE WriteSize + i \in 1..n /\ l[i] = buffer[WriteSize + i]
      OBVIOUS
    <2>1. i \in 1..(n - k) /\ k = WriteSize
      BY <1>2, <1>6, <1>8
    <2>2. QED
      BY <1>1, <1>2, <1>6, <2>1
  <1>10. n <= BufSize => Len(l) < BufSize
    <2>1. k = 0 => n = 0
      BY <1>1, <1>2 DEF k
    <2> HIDE DEF n
    <2>2. QED
      BY <1>1, <1>2, <1>6, <2>1
  <1>11. buffer = <<>> => t = <<>>
    <2>1. buffer = <<>> => Len(t) = 0
      BY <1>2, <1>4
    <2>2. QED
      BY <1>4, <2>1, EmptySeq
  <1>12. QED
    BY <1>7, <1>9, <1>10, <1>11 DEF t, l, n

-----------------------------------------------------------------------------
(* The inductive invariant.                                                  *)

A == "SERIAL_A"
E == "ETHERNET"

\* The responses on their way to the host, those in the output buffer last.
Pipeline(c) == toHost[c] \o Readable(OutgoingBuffer[c])

ChannelInv(c) ==
  TransferInv(c, session, LastSentSentence, toDev[c], Pipeline(c), hostAt(c))

\* The serial channel's buffer is written at once.
QuietInv == OutgoingBuffer[A] = <<>>

\* Without a connection there is no host at the other end.
ConnInv ==
  /\ tcpSocketFd # "live" => hostStep[E] = "off" /\ toHost[E] = <<>>
  /\ tcpSocketFd = "none" => toDev[E] = <<>>

\* The first request of a connection, in the form in which it was sent.
Opening(m) == m.ok /\ ~m.enc /\ m.num = 1 /\ (hostStep[E] # "off" => m.tag = hostStep[E])

\* Keep-alive bytes fill the Ethernet buffer only without a connection: what
\* they then keep out are responses to the next host's first request.
FullInv ==
  Len(OutgoingBuffer[E]) = BufSize =>
    /\ toHost[E] = <<>> /\ hostStep[E] \in {"off", "GDT", "LGN"}
    /\ hostStep[E] # "off" => hostNum[E] = 1 /\ ~hostEnc[E]
    /\ \A i \in 1..Len(toDev[E]) : Opening(toDev[E][i])

\* Of responses it holds one at most, which the next call takes,
OneInv ==
  LET buffer == OutgoingBuffer[E] IN
  /\ \A i \in 1..Len(buffer) : buffer[i].kind # "space" => i <= WriteSize
  /\ \A i, j \in 1..Len(buffer) : buffer[i].kind # "space" /\ buffer[j].kind # "space" => i = j

\* and if that confirms a login, no part of a file has been stored since.
PendingInv ==
  LET buffer == OutgoingBuffer[E] IN
  \A i \in 1..Len(buffer) :
    buffer[i].kind = "EOK" /\ Active(E, session) =>
      /\ ~Is(LastSentSentence, "FIL")
      /\ session.ExpectedSentenceNum <= buffer[i].num + 1 \/ session.ExpectedSentenceNum <= 2

EthernetInv == ConnInv /\ FullInv /\ OneInv /\ PendingInv

HostsInv == QuietInv /\ EthernetInv /\ \A c \in Channels : ChannelInv(c)

LEMMA ChannelTypes ==
  ASSUME TypeInv, NEW c \in Channels
  PROVE  /\ session \in Sessions /\ IsReply(LastSentSentence)
         /\ toDev[c] \in Seq(Requests) /\ toHost[c] \in Seq(Responses)
         /\ OutgoingBuffer[c] \in Seq(Bytes) /\ Len(OutgoingBuffer[c]) <= BufSize
         /\ Readable(OutgoingBuffer[c]) \in Seq(Responses) /\ Pipeline(c) \in Seq(Responses)
         /\ hostAt(c) \in HostStates
  <1>1. hostAt(c) \in HostStates
    BY DEF TypeInv, HostsTyped, hostAt, HostStates
  <1>2. toDev[c] \in Seq(Requests) /\ toHost[c] \in Seq(Responses)
    BY DEF TypeInv, LinesTyped
  <1>3. /\ session \in Sessions /\ IsReply(LastSentSentence)
        /\ OutgoingBuffer[c] \in Seq(Bytes) /\ Len(OutgoingBuffer[c]) <= BufSize
    BY DEF TypeInv, DeviceTyped
  <1>4. Readable(OutgoingBuffer[c]) \in Seq(Responses)
    BY <1>3, ReadableTyped DEF Bytes
  <1>5. Pipeline(c) \in Seq(Responses)
    BY <1>2, <1>4, ConcatProperties DEF Pipeline
  <1>6. QED
    BY <1>1, <1>2, <1>3, <1>4, <1>5

LEMMA ChannelTypesNext ==
  ASSUME TypeInv', NEW c \in Channels
  PROVE  /\ session' \in Sessions /\ IsReply(LastSentSentence')
         /\ toDev'[c] \in Seq(Requests) /\ toHost'[c] \in Seq(Responses)
         /\ OutgoingBuffer'[c] \in Seq(Bytes)
         /\ hostAt(c)' \in HostStates
  <1>1. hostAt(c)' \in HostStates
    <2>1. HostsTyped'
      BY DEF TypeInv
    <2>2. QED
      BY <2>1 DEF HostsTyped, hostAt, HostStates
  <1>2. QED
    BY <1>1 DEF TypeInv, DeviceTyped, LinesTyped

LEMMA TwoChannels == A \in Channels /\ E \in Channels /\ A # E /\ \A c \in Channels : c = A \/ c = E
  BY DEF A, E, Channels

-----------------------------------------------------------------------------
(* What the other channel's steps make of a transfer.                        *)

\* Channel d leaves the session of c alone or ends it.
LEMMA OtherAnswer ==
  ASSUME NEW c \in Channels, NEW d \in Channels, d # c,
         NEW s \in Sessions, s.UserLoggedOn => s.ActiveChannel # "NONE", NEW last,
         NEW m \in Requests, NEW r \in ProcessSentence(s, last, d, m), Active(c, r.session)
  PROVE  r.session = s /\ IsPlain(r.reply)
  <1> DEFINE a == AfterPrefix(s, m)
  <1>0. c # "NONE" /\ d # "NONE"
    BY DEF Channels
  <1>1. a \in Sessions /\ (Active(c, a) => a = s)
    <2>1. Cleared(s) \in Sessions /\ ~Active(c, Cleared(s))
      BY <1>0, ClearedTyped DEF Active, Cleared, Sessions
    <2>2. QED
      BY <2>1 DEF AfterPrefix
  <1> HIDE DEF a
  <1>2. CASE r = Result(a, <<>>)
    BY <1>1, <1>2 DEF IsPlain, Result
  <1>3. CASE \E x \in Readings(a, m) : r = Answer(a, last, d, x)
    <2>1. PICK x \in Readings(a, m) : r = Answer(a, last, d, x)
      BY <1>3
    <2>2. x \in Requests
      <3>1. \A n \in 0..MaxNum : Unreadable(n) \in Requests
        BY DEF Unreadable, Requests, Sentences, Tags, Args
      <3>2. QED
        BY <2>1, <3>1 DEF Readings
    <2>3. x.num \in 0..MaxNum
      BY <2>2 DEF Requests, Sentences
    <2>4. CASE IsDuplicate(a, d, x)
      BY <2>1, <2>4 DEF IsDuplicate, Answer, Result, Active
    <2>5. CASE ~IsDuplicate(a, d, x) /\ ~x.ok
      <3>1. IsPlain(Reply(a, "CHK", x.num))
        BY <1>1, <2>3, PlainReplies DEF Kinds
      <3>2. QED
        BY <1>1, <2>1, <2>5, <3>1 DEF Answer, Result
    <2>6. CASE ~IsDuplicate(a, d, x) /\ x.ok /\ a.ActiveChannel \notin {"NONE", d}
      <3>1. IsPlain(Reply(a, "ALC", x.num))
        BY <1>1, <2>3, PlainReplies DEF Kinds
      <3>2. QED
        BY <1>1, <2>1, <2>6, <3>1 DEF Answer, Result
    <2>7. CASE ~IsDuplicate(a, d, x) /\ x.ok /\ a.ActiveChannel \in {"NONE", d}
      <3> DEFINE t == Accepted(a, d, x)
      <3>1. r = Dispatch(t, d, x)
        BY <2>1, <2>7 DEF Answer
      <3>2. t \in Sessions /\ t.ActiveChannel = d
        BY <1>1, <2>2, AcceptedTyped DEF Accepted, Sessions
      <3> HIDE DEF t
      <3>3. ~Active(c, ProcessLGN(t, d, x).session) /\ ~Active(c, ProcessGDT(t, x).session)
        BY <1>0, <3>2 DEF ProcessLGN, ProcessGDT, Result, Active, Sessions
      <3>4. ~Active(c, ProcessGFI(t, x).session) /\ ~Active(c, ProcessCFI(t, x).session)
        BY <3>2 DEF ProcessGFI, ProcessCFI, Result, Active, Sessions
      <3>5. ~Active(c, ProcessLOF(t, x).session) /\ ~Active(c, ProcessSEP(t, d, x).session)
        BY <1>0, <3>2 DEF ProcessLOF, ProcessSEP, Cleared, Result, Active, Sessions
      <3>6. \A reply : ~Active(c, Result(t, reply).session)
        BY <3>2 DEF Result, Active
      <3>7. QED
        BY <3>1, <3>3, <3>4, <3>5, <3>6 DEF Dispatch
    <2>8. QED
      BY <2>4, <2>5, <2>6, <2>7
  <1>4. QED
    BY <1>2, <1>3 DEF ProcessSentence, a

LEMMA OtherProcess ==
  ASSUME TypeInv, NEW c \in Channels, NEW d \in Channels, d # c, ChannelInv(c), toDev[d] # <<>>,
         NEW buffer, Process(d, Head(toDev[d]), buffer)
  PROVE  Aside(c, session, LastSentSentence, session', LastSentSentence')
  <1>1. session \in Sessions /\ (session.UserLoggedOn => session.ActiveChannel # "NONE")
    BY ChannelTypes DEF ChannelInv, TransferInv
  <1>2. CASE UNCHANGED <<session, LastSentSentence>>
    BY <1>1, <1>2 DEF Aside
  <1>3. CASE \E r \in ProcessSentence(session, LastSentSentence, d, Head(toDev[d])) :
               \E kept : session' = r.session /\ LastSentSentence' = Stored(kept, r.reply)
    <2>1. PICK r \in ProcessSentence(session, LastSentSentence, d, Head(toDev[d])) :
            \E kept : session' = r.session /\ LastSentSentence' = Stored(kept, r.reply)
      BY <1>3
    <2>2. Head(toDev[d]) \in Requests
      BY LastOfLines
    <2>3. session'.UserLoggedOn => session'.ActiveChannel # "NONE"
      <3>1. Owned(session)
        BY <1>1 DEF Owned, Sessions
      <3>2. Owned(r.session)
        BY <3>1, ProcessSentenceOwned
      <3>3. QED
        BY <2>1, <3>2 DEF Owned
    <2>4. ASSUME Active(c, session')
          PROVE  /\ session' = session
                 /\ LastSentSentence' = LastSentSentence
                      \/ ~(Is(LastSentSentence', "EOK") \/ Is(LastSentSentence', "FIL"))
      <3>1. session' = session /\ IsPlain(r.reply)
        BY <1>1, <2>1, <2>2, <2>4, OtherAnswer
      <3>2. LastSentSentence' = LastSentSentence \/ (LastSentSentence' = r.reply /\ r.reply # <<>>)
        BY <2>1 DEF Stored
      <3>3. r.reply # <<>> => ~(Is(r.reply, "EOK") \/ Is(r.reply, "FIL"))
        <4>1. \A x : <<x>>[1] = x
          OBVIOUS
        <4>2. QED
          BY <3>1, <4>1 DEF IsPlain, Is
      <3>4. QED
        BY <3>1, <3>2, <3>3
    <2>5. QED
      BY <2>3, <2>4 DEF Aside
  <1>4. QED
    BY <1>2, <1>3 DEF Process

\* A step that does not touch channel c and its host.
Elsewhere(c) ==
  /\ OutgoingBuffer'[c] = OutgoingBuffer[c]
  /\ toDev'[c] = toDev[c] /\ toHost'[c] = toHost[c] /\ hostAt(c)' = hostAt(c)
  /\ Aside(c, session, LastSentSentence, session', LastSentSentence')

LEMMA ElsewhereStep ==
  ASSUME TypeInv, TypeInv', NEW c \in Channels, ChannelInv(c), Elsewhere(c)
  PROVE  ChannelInv(c)'
  <1>1. session' \in Sessions /\ IsReply(LastSentSentence')
    BY ChannelTypesNext
  <1>2. TransferInv(c, session', LastSentSentence', toDev[c], Pipeline(c), hostAt(c))
    BY <1>1, ChannelTypes, SessionAside DEF ChannelInv, Elsewhere
  <1>3. QED
    BY <1>2 DEF ChannelInv, Pipeline, Elsewhere

LEMMA EthernetElsewhere ==
  ASSUME EthernetInv, Elsewhere(E), tcpSocketFd' = tcpSocketFd \/ tcpSocketFd' = "live"
  PROVE  EthernetInv'
  <1>1. /\ hostStep'[E] = hostStep[E] /\ hostNum'[E] = hostNum[E] /\ hostEnc'[E] = hostEnc[E]
    BY DEF Elsewhere, hostAt
  <1>2. ConnInv' /\ OneInv'
    BY <1>1 DEF EthernetInv, Elsewhere, ConnInv, OneInv
  <1>3. FullInv'
    BY <1>1 DEF EthernetInv, Elsewhere, FullInv, Opening
  <1>4. PendingInv'
    BY DEF EthernetInv, Elsewhere, PendingInv, Aside
  <1>5. QED
    BY <1>2, <1>3, <1>4 DEF EthernetInv

LEMMA UnchangedAside ==
  ASSUME NEW c \in Channels, ChannelInv(c), UNCHANGED <<session, LastSentSentence>>
  PROVE  Aside(c, session, LastSentSentence, session', LastSentSentence')
  BY DEF ChannelInv, TransferInv, Aside

LEMMA OtherHost ==
  ASSUME TypeInv, NEW c \in Channels, NEW d \in Channels, d # c, ChannelInv(c), Host(d)
  PROVE  Elsewhere(c) /\ UNCHANGED <<OutgoingBuffer, tcpSocketFd>>
  <1>1. toDev \in [Channels -> Seq(Requests)] /\ toHost \in [Channels -> Seq(Responses)]
    BY DEF TypeInv, LinesTyped
  <1>2. UNCHANGED devVars /\ UNCHANGED tcpSocketFd
    BY DEF Host, HostStart, HostSend, HostReceive, HostGiveUp, tcpVars
  <1>3. ASSUME NEW step, NEW n, Move(d, step, n)
        PROVE  hostStep'[c] = hostStep[c] /\ hostNum'[c] = hostNum[c] /\ hostArg'[c] = hostArg[c]
    BY <1>3 DEF Move, TypeInv, HostsTyped
  <1>4. hostEnc \in [Channels -> BOOLEAN] /\ got \in [Channels -> Seq(0..NChunks)]
    BY DEF TypeInv, HostsTyped
  <1>5. /\ toDev'[c] = toDev[c] /\ toHost'[c] = toHost[c]
        /\ hostStep'[c] = hostStep[c] /\ hostNum'[c] = hostNum[c] /\ hostArg'[c] = hostArg[c]
        /\ hostEnc'[c] = hostEnc[c] /\ got'[c] = got[c]
    <2>1. CASE HostStart(d)
      BY <1>1, <1>3, <1>4, <2>1 DEF HostStart
    <2>2. CASE HostSend(d)
      BY <1>1, <2>2 DEF HostSend, hostVars
    <2>3. CASE HostReceive(d)
      BY <1>1, <1>3, <1>4, <2>3 DEF HostReceive, hostVars
    <2>4. CASE HostGiveUp(d)
      BY <1>3, <2>4 DEF HostGiveUp
    <2>5. QED
      BY <2>1, <2>2, <2>3, <2>4 DEF Host
  <1>6. hostAt(c)' = hostAt(c)
    BY <1>5 DEF hostAt
  <1>7. QED
    BY <1>2, <1>5, <1>6, UnchangedAside DEF devVars, Elsewhere

-----------------------------------------------------------------------------
(* An exchange with channel c.                                               *)

LEMMA PipelineWritten ==
  ASSUME NEW host \in Seq(Responses), NEW buffer \in Seq(Bytes)
  PROVE  (host \o Readable(Taken(buffer))) \o Readable(Left(buffer)) = host \o Readable(buffer)
  <1>1. Taken(buffer) \in Seq(Bytes) /\ Left(buffer) \in Seq(Bytes)
    BY TakenAndLeft
  <1>2. Readable(Taken(buffer)) \in Seq(Responses) /\ Readable(Left(buffer)) \in Seq(Responses)
    BY <1>1, ReadableTyped DEF Bytes
  <1>3. Readable(buffer) = Readable(Taken(buffer)) \o Readable(Left(buffer))
    <2>1. Readable(Taken(buffer) \o Left(buffer)) = Readable(Taken(buffer)) \o Readable(Left(buffer))
      BY ONLY <1>1, ReadableJoin
    <2>2. Taken(buffer) \o Left(buffer) = buffer
      BY LeftBehind
    <2>3. QED
      BY ONLY <2>1, <2>2
  <1>4. host \o (Readable(Taken(buffer)) \o Readable(Left(buffer))) = (host \o Readable(Taken(buffer))) \o Readable(Left(buffer))
    BY ONLY <1>2, ResponsesJoin, host \in Seq(Responses)
  <1>5. QED
    BY ONLY <1>3, <1>4

\* The buffer that processing leaves: with the response, if it fits.
Extends(buffer, kept) ==
  \/ buffer = kept
  \/ \E x \in Responses : buffer = kept \o <<x>> /\ LastSentSentence' = <<x>>

LEMMA ExchangeStep ==
  ASSUME TypeInv, TypeInv', NEW c \in Channels, ChannelInv(c), toDev[c] # <<>>,
         c = A => QuietInv, c = E => FullInv,
         NEW buffer, Process(c, Head(toDev[c]), buffer)
  PROVE  /\ TransferInv(c, session', LastSentSentence', Tail(toDev[c]), toHost[c] \o Readable(buffer), hostAt(c))
         /\ buffer \in Seq(Bytes) /\ Len(buffer) <= BufSize
         /\ Extends(buffer, OutgoingBuffer[c]) \/ Extends(buffer, <<>>)
  <1> DEFINE out == OutgoingBuffer[c]
             dev == toDev[c]
             m == Head(dev)
             h == hostAt(c)
  <1>1. /\ session \in Sessions /\ IsReply(LastSentSentence)
        /\ dev \in Seq(Requests) /\ toHost[c] \in Seq(Responses)
        /\ out \in Seq(Bytes) /\ Len(out) <= BufSize
        /\ Readable(out) \in Seq(Responses) /\ h \in HostStates
        /\ toHost[c] \o Readable(out) \in Seq(Responses)
    BY ChannelTypes DEF Pipeline
  <1>2. m \in Requests
    BY LastOfLines
  <1>3. TransferInv(c, session, LastSentSentence, dev, toHost[c] \o Readable(out), h)
    BY DEF ChannelInv, Pipeline
  <1>4. BufSize \in Nat \ {0}
    BY SessionAssumption
  <1> HIDE DEF h
  <1>5. CASE UNCHANGED <<session, LastSentSentence>> /\ buffer = out
    <2>1. TransferInv(c, session, LastSentSentence, Tail(dev), toHost[c] \o Readable(out), h)
      BY <1>1, <1>3, RequestTaken
    <2>2. QED
      BY <1>1, <1>5, <2>1 DEF Extends, h
  <1>6. CASE \E r \in ProcessSentence(session, LastSentSentence, c, m) :
               LET kept == IF r.emptied THEN <<>> ELSE out IN
               /\ session' = r.session
               /\ buffer = Appended(kept, r.reply)
               /\ LastSentSentence' = Stored(kept, r.reply)
    <2>1. PICK r \in ProcessSentence(session, LastSentSentence, c, m) :
               LET kept == IF r.emptied THEN <<>> ELSE out IN
               /\ session' = r.session
               /\ buffer = Appended(kept, r.reply)
               /\ LastSentSentence' = Stored(kept, r.reply)
      BY <1>6
    <2> DEFINE kept == IF r.emptied THEN <<>> ELSE out
               host2 == toHost[c] \o Readable(kept)
    <2>2. /\ session' = r.session
          /\ buffer = Appended(kept, r.reply)
          /\ LastSentSentence' = Stored(kept, r.reply)
      BY <2>1
    <2>3. r.reply \in Seq(Responses) /\ Len(r.reply) <= 1 /\ IsReply(r.reply)
      <3>1. ResultTyped(r)
        BY <1>1, <1>2, ProcessSentenceTyped
      <3>2. QED
        BY <3>1 DEF ResultTyped, IsReply
    <2>4. kept \in Seq(Bytes) /\ Len(kept) <= BufSize /\ (kept = out \/ kept = <<>>) /\ (~r.emptied => kept = out)
      BY <1>1, <1>4
    <2> HIDE DEF kept
    <2>5. Readable(kept) \in Seq(Responses) /\ host2 \in Seq(Responses)
      <3>1. Readable(kept) \in Seq(Responses)
        BY <2>4, ReadableTyped DEF Bytes
      <3>2. QED
        BY <1>1, <3>1, ConcatProperties
    <2>6. host2 = toHost[c] \o Readable(out) \/ r.emptied
      BY <2>4
    <2>7. Len(kept) \in Nat /\ Len(r.reply) \in Nat
      BY <2>3, <2>4
    <2>8. CASE r.reply = <<>>
      <3>1. Fits(kept, r.reply) /\ kept \o <<>> = kept /\ host2 \o <<>> = host2
        <4>1. Len(<<>>) = 0
          OBVIOUS
        <4>2. kept \o <<>> = kept /\ host2 \o <<>> = host2
          BY <2>4, <2>5, ConcatEmptySeq
        <4>3. QED
          BY <2>4, <2>7, <2>8, <4>1, <4>2 DEF Fits
      <3>2. buffer = kept /\ LastSentSentence' = LastSentSentence
        BY <2>2, <2>8, <3>1 DEF Appended, Stored
      <3>3. TransferInv(c, r.session, LastSentSentence, Tail(dev), host2 \o r.reply, h)
        BY <1>1, <1>3, <2>5, <2>6, <2>8, Processed
      <3>4. QED
        BY <2>2, <2>4, <2>8, <3>1, <3>2, <3>3 DEF Extends, h
    <2>9. CASE r.reply # <<>> /\ Fits(kept, r.reply)
      <3>1. PICK x \in Responses : r.reply = <<x>>
        BY <2>3, <2>9, ReplyIsOne
      <3>2. buffer = kept \o <<x>> /\ LastSentSentence' = <<x>>
        BY <2>2, <2>9, <3>1 DEF Appended, Stored
      <3>3. TransferInv(c, r.session, r.reply, Tail(dev), host2 \o r.reply, h)
        BY <1>1, <1>3, <2>5, <2>6, <2>9, Processed
      <3>4. <<x>> \in Seq(Bytes) /\ Readable(<<x>>) = <<x>> /\ <<x>> \in Seq(Responses) /\ Len(<<x>>) = 1
        BY <3>1, ReadableShort DEF Bytes
      <3>5. host2 \o <<x>> = toHost[c] \o Readable(buffer)
        <4>1. Readable(buffer) = Readable(kept) \o <<x>>
          BY <2>4, <3>2, <3>4, ReadableJoin
        <4>2. toHost[c] \in Seq(Responses) /\ Readable(kept) \in Seq(Responses) /\ <<x>> \in Seq(Responses)
          BY <1>1, <2>5, <3>4
        <4>3. (toHost[c] \o Readable(kept)) \o <<x>> = toHost[c] \o (Readable(kept) \o <<x>>)
          BY <4>2, ResponsesJoin
        <4>4. QED
          BY <4>1, <4>3
      <3>6. buffer \in Seq(Bytes) /\ Len(buffer) = Len(kept) + 1
        BY <2>4, <3>2, <3>4, ConcatProperties
      <3>7. Len(buffer) <= BufSize
        BY <2>9, <3>1, <3>4, <3>6 DEF Fits
      <3>8. QED
        BY <2>2, <2>4, <3>1, <3>2, <3>3, <3>5, <3>6, <3>7 DEF Extends, h
    <2>10. CASE r.reply # <<>> /\ ~Fits(kept, r.reply)
      <3>1. Len(r.reply) = 1
        <4>1. Len(r.reply) # 0
          BY <2>3, <2>10, EmptySeq
        <4>2. QED
          <5> DEFINE n == Len(r.reply)
          <5>1. n \in Nat /\ n <= 1 /\ n # 0
            BY <2>3, <2>7, <4>1
          <5> HIDE DEF n
          <5>2. n = 1
            BY <5>1
          <5>3. QED
            BY <5>2 DEF n
      <3>2. Len(kept) = BufSize
        BY <1>4, <2>4, <2>7, <2>10, <3>1 DEF Fits
      <3>3. kept = out /\ out # <<>>
        BY <1>4, <2>4, <3>2
      <3>4. c = E
        BY <3>3, TwoChannels DEF QuietInv
      <3>5. FullInv /\ Len(OutgoingBuffer[E]) = BufSize
        BY <3>2, <3>3, <3>4
      <3>6. /\ h.step \in {"off", "GDT", "LGN"}
            /\ \A i \in 1..Len(dev) : dev[i].ok /\ ~dev[i].enc /\ dev[i].num = 1 /\ (h.step = "LGN" => dev[i].tag = "LGN")
            /\ h.step = "LGN" => h.num = 1 /\ ~h.enc
        BY <3>4, <3>5 DEF FullInv, Opening, hostAt, h
      <3>7. 1 \in 1..Len(dev) /\ m = dev[1]
        BY <1>1, TailOf
      <3>8. m.num = 1 /\ (h.step = "LGN" => m.tag = "LGN")
        BY <3>6, <3>7
      <3>9. TransferInv(c, r.session, LastSentSentence, Tail(dev), toHost[c] \o Readable(out), h)
        BY <1>1, <1>3, <3>4, <3>6, <3>8, Dropped DEF E
      <3>10. buffer = out /\ LastSentSentence' = LastSentSentence
        BY <2>2, <2>10, <3>3 DEF Appended, Stored
      <3>11. QED
        BY <1>1, <2>2, <3>9, <3>10 DEF Extends, h
    <2>11. QED
      BY <2>8, <2>9, <2>10
  <1>7. QED
    BY <1>5, <1>6 DEF Process

LEMMA SerialExchange ==
  ASSUME TypeInv, TypeInv', QuietInv, ChannelInv(A), ExchangeUARTData
  PROVE  ChannelInv(A)' /\ QuietInv'
  <1>1. A \in Channels /\ A = "SERIAL_A"
    BY DEF A, Channels
  <1>2. /\ OutgoingBuffer \in [Channels -> Seq(Bytes)]
        /\ toDev \in [Channels -> Seq(Requests)] /\ toHost \in [Channels -> Seq(Responses)]
    BY DEF TypeInv, DeviceTyped, LinesTyped
  <1>3. hostAt(A)' = hostAt(A)
    BY DEF ExchangeUARTData, ReadUART, IdleUART, hostVars, hostAt
  <1>4. ASSUME NEW buffer \in Seq(Bytes), Len(buffer) <= 1,
               TransferInv(A, session', LastSentSentence', toDev'[A], toHost[A] \o Readable(buffer), hostAt(A)),
               OutgoingBuffer' = [OutgoingBuffer EXCEPT ![A] = Left(buffer)],
               toHost' = [toHost EXCEPT ![A] = @ \o Readable(Taken(buffer))]
        PROVE  ChannelInv(A)' /\ QuietInv'
    <2>1. OutgoingBuffer'[A] = Left(buffer) /\ toHost'[A] = toHost[A] \o Readable(Taken(buffer))
      BY <1>1, <1>2, <1>4
    <2>2. Left(buffer) = <<>>
      BY <1>4, TakenAndLeft
    <2>3. toHost[A] \in Seq(Responses)
      BY <1>1, <1>2
    <2>4. toHost'[A] \o Readable(OutgoingBuffer'[A]) = toHost[A] \o Readable(buffer)
      BY <1>4, <2>1, <2>3, PipelineWritten
    <2>5. QED
      BY <1>3, <1>4, <2>1, <2>2, <2>4 DEF ChannelInv, Pipeline, QuietInv
  <1>5. CASE IdleUART
    <2>1. /\ OutgoingBuffer' = [OutgoingBuffer EXCEPT ![A] = Left(OutgoingBuffer[A])]
          /\ toHost' = [toHost EXCEPT ![A] = @ \o Readable(Taken(OutgoingBuffer[A]))]
          /\ UNCHANGED <<session, LastSentSentence, toDev>>
      BY <1>5 DEF IdleUART, A
    <2>2. OutgoingBuffer[A] \in Seq(Bytes) /\ Len(OutgoingBuffer[A]) <= 1
      BY DEF QuietInv
    <2>3. TransferInv(A, session', LastSentSentence', toDev'[A], toHost[A] \o Readable(OutgoingBuffer[A]), hostAt(A))
      BY <2>1 DEF ChannelInv, Pipeline
    <2>4. QED
      BY <1>4, <2>1, <2>2, <2>3
  <1>6. CASE ReadUART
    <2>1. PICK buffer :
            /\ Process(A, Head(toDev[A]), buffer)
            /\ OutgoingBuffer' = [OutgoingBuffer EXCEPT ![A] = Left(buffer)]
            /\ toHost' = [toHost EXCEPT ![A] = @ \o Readable(Taken(buffer))]
      BY <1>6 DEF ReadUART, A
    <2>2. toDev[A] # <<>> /\ toDev' = [toDev EXCEPT ![A] = Tail(@)]
      BY <1>6 DEF ReadUART, A
    <2>3. toDev'[A] = Tail(toDev[A])
      BY <1>1, <1>2, <2>2
    <2>4. /\ TransferInv(A, session', LastSentSentence', Tail(toDev[A]), toHost[A] \o Readable(buffer), hostAt(A))
          /\ buffer \in Seq(Bytes)
          /\ Extends(buffer, OutgoingBuffer[A]) \/ Extends(buffer, <<>>)
      BY <2>1, <2>2, TwoChannels, ExchangeStep
    <2>5. Len(buffer) <= 1
      <3>1. buffer = <<>> \/ \E x : buffer = <<>> \o <<x>>
        BY <2>4 DEF QuietInv, Extends
      <3>2. CASE buffer = <<>>
        BY <3>2
      <3>3. CASE \E x : buffer = <<>> \o <<x>>
        <4>1. PICK x : buffer = <<>> \o <<x>>
          BY <3>3
        <4>2. buffer = <<x>>
          BY <4>1
        <4>3. QED
          BY <4>2
      <3>4. QED
        BY <3>1, <3>2, <3>3
    <2>6. QED
      BY <1>4, <2>1, <2>3, <2>4, <2>5
  <1>7. QED
    BY <1>5, <1>6 DEF ExchangeUARTData


\* Of what an exchange leaves in the buffer nothing but the last response, which
\* is the stored one, is to be read.
LEMMA LeftOver ==
  ASSUME NEW out \in Seq(Bytes), \A i \in 1..Len(out) : out[i].kind # "space" => i <= WriteSize,
         NEW buffer \in Seq(Bytes), Len(buffer) <= BufSize, Extends(buffer, out),
         NEW i \in 1..Len(Left(buffer)), Left(buffer)[i].kind # "space"
  PROVE  WriteSize + i = Len(buffer) /\ i <= WriteSize /\ LastSentSentence' = <<Left(buffer)[i]>>
  <1>1. WriteSize \in Nat \ {0} /\ BufSize \in Nat /\ BufSize <= WriteSize + WriteSize
    BY SessionAssumption, BufferAssumption
  <1>2. WriteSize + i \in 1..Len(buffer) /\ Left(buffer)[i] = buffer[WriteSize + i] /\ i \in Nat \ {0}
    BY LeftBehind
  <1> DEFINE p == WriteSize + i
  <1>3. p \in 1..Len(buffer) /\ p > WriteSize /\ buffer[p] = Left(buffer)[i]
    BY <1>1, <1>2
  <1>4. Len(buffer) \in Nat /\ Len(out) \in Nat
    OBVIOUS
  <1>5. buffer # out
    BY <1>1, <1>3 DEF Extends
  <1>6. PICK x \in Responses : buffer = out \o <<x>> /\ LastSentSentence' = <<x>>
    BY <1>5 DEF Extends
  <1>7. x \in Bytes
    BY <1>6 DEF Bytes
  <1>8. /\ Len(buffer) = Len(out) + 1 /\ buffer[Len(out) + 1] = x
        /\ \A j \in 1..Len(out) : buffer[j] = out[j]
    BY <1>6, <1>7, JoinOf
  <1> HIDE DEF p
  <1>9. p = Len(out) + 1
    <2>1. p \in 1..Len(out) => FALSE
      BY <1>1, <1>2, <1>3, <1>8
    <2>2. QED
      BY <1>3, <1>4, <1>8, <2>1
  <1>10. i <= WriteSize
    BY <1>1, <1>2, <1>3, <1>4 DEF p
  <1>11. QED
    BY <1>3, <1>6, <1>8, <1>9, <1>10 DEF p

LEMMA EthernetWritten ==
  ASSUME TypeInv, EthernetInv, tcpSocketFd # "none",
         NEW dev, NEW buffer \in Seq(Bytes), Len(buffer) <= BufSize,
         session' \in Sessions, IsReply(LastSentSentence'),
         TransferInv(E, session', LastSentSentence', dev, toHost[E] \o Readable(buffer), hostAt(E)),
         dev \in Seq(Requests),
         Extends(buffer, OutgoingBuffer[E]) \/ Extends(buffer, <<>>),
         OutgoingBuffer' = [OutgoingBuffer EXCEPT ![E] = Left(buffer)], TcpWrite(Taken(buffer)),
         toDev' = [toDev EXCEPT ![E] = IF tcpSocketFd' = "none" THEN <<>> ELSE dev],
         UNCHANGED hostVars
  PROVE  ChannelInv(E)' /\ EthernetInv'
  <1>1. E \in Channels /\ E = "ETHERNET"
    BY DEF E, Channels
  <1>2. /\ OutgoingBuffer \in [Channels -> Seq(Bytes)]
        /\ toDev \in [Channels -> Seq(Requests)] /\ toHost \in [Channels -> Seq(Responses)]
    BY DEF TypeInv, DeviceTyped, LinesTyped
  <1>3. hostAt(E)' = hostAt(E) /\ hostStep' = hostStep /\ hostAt(E).step = hostStep[E] /\ hostAt(E) \in HostStates
    BY <1>1, ChannelTypes DEF hostVars, hostAt
  <1>4. OutgoingBuffer'[E] = Left(buffer) /\ toDev'[E] = IF tcpSocketFd' = "none" THEN <<>> ELSE dev
    BY <1>1, <1>2
  <1>5. FullInv' /\ OneInv' /\ PendingInv'
    <2>1. Len(Left(buffer)) < BufSize /\ Left(buffer) \in Seq(Bytes)
      BY LeftBehind, TakenAndLeft
    <2>2. ASSUME NEW i \in 1..Len(Left(buffer)), Left(buffer)[i].kind # "space"
          PROVE  WriteSize + i = Len(buffer) /\ i <= WriteSize /\ LastSentSentence' = <<Left(buffer)[i]>>
      <3>1. CASE Extends(buffer, OutgoingBuffer[E])
        <4>1. \A j \in 1..Len(OutgoingBuffer[E]) : OutgoingBuffer[E][j].kind # "space" => j <= WriteSize
          BY DEF EthernetInv, OneInv
        <4>2. OutgoingBuffer[E] \in Seq(Bytes)
          BY <1>1, <1>2
        <4>3. QED
          BY <2>2, <3>1, <4>1, <4>2, LeftOver
      <3>2. CASE Extends(buffer, <<>>)
        <4>1. <<>> \in Seq(Bytes) /\ \A j \in 1..Len(<<>>) : <<>>[j].kind # "space" => j <= WriteSize
          OBVIOUS
        <4>2. QED
          BY <2>2, <3>2, <4>1, LeftOver
      <3>3. QED
        BY <3>1, <3>2
    <2>3. FullInv'
      <3>1. Len(Left(buffer)) # BufSize
        BY <2>1, SessionAssumption
      <3>2. QED
        BY <1>4, <3>1 DEF FullInv
    <2>4. OneInv'
      <3>1. ASSUME NEW i \in 1..Len(Left(buffer)), NEW j \in 1..Len(Left(buffer)),
                   Left(buffer)[i].kind # "space", Left(buffer)[j].kind # "space"
            PROVE  i = j
        <4>1. WriteSize + i = WriteSize + j
          BY <2>2, <3>1
        <4>2. QED
          BY <2>1, <4>1, SessionAssumption
      <3>2. QED
        BY <1>4, <2>2, <3>1 DEF OneInv
    <2>5. PendingInv'
      <3>1. KeptInv(E, session', LastSentSentence')
        BY DEF TransferInv
      <3>2. ASSUME NEW i \in 1..Len(Left(buffer)), Left(buffer)[i].kind = "EOK", Active(E, session')
            PROVE  /\ ~Is(LastSentSentence', "FIL")
                   /\ \/ session'.ExpectedSentenceNum <= Left(buffer)[i].num + 1
                      \/ session'.ExpectedSentenceNum <= 2
        <4> DEFINE x == Left(buffer)[i]
        <4>1. LastSentSentence' = <<x>>
          BY <2>2, <3>2
        <4>2. <<x>> # <<>> /\ <<x>>[1] = x
          OBVIOUS
        <4>3. x.kind = "EOK"
          BY <3>2
        <4> HIDE DEF x
        <4>4. ~Is(LastSentSentence', "FIL") /\ Is(LastSentSentence', "EOK") /\ LastSentSentence'[1] = x
          BY <4>1, <4>2, <4>3 DEF Is
        <4>5. session'.ExpectedSentenceNum <= x.num + 1 \/ session'.ExpectedSentenceNum <= 2
          BY <3>1, <3>2, <4>4 DEF KeptInv
        <4>6. QED
          BY <4>4, <4>5 DEF x
      <3>3. QED
        BY <1>4, <3>2 DEF PendingInv
    <2>6. QED
      BY <2>3, <2>4, <2>5
  <1>6. CASE /\ tcpSocketFd = "live" \/ Taken(buffer) = <<>>
             /\ toHost' = [toHost EXCEPT ![E] = @ \o Readable(Taken(buffer))]
             /\ UNCHANGED tcpSocketFd
    <2>1. toHost'[E] = toHost[E] \o Readable(Taken(buffer)) /\ toHost[E] \in Seq(Responses)
      BY <1>1, <1>2, <1>6
    <2>2. toHost'[E] \o Readable(OutgoingBuffer'[E]) = toHost[E] \o Readable(buffer)
      BY <1>4, <2>1, PipelineWritten
    <2>3. toDev'[E] = dev
      BY <1>4, <1>6
    <2>4. ChannelInv(E)'
      BY <1>3, <2>2, <2>3 DEF ChannelInv, Pipeline
    <2>5. ConnInv'
      <3>1. CASE tcpSocketFd = "live"
        BY <1>6, <3>1 DEF ConnInv
      <3>2. CASE tcpSocketFd # "live"
        <4>1. toHost[E] = <<>> /\ hostStep[E] = "off"
          BY <3>2 DEF EthernetInv, ConnInv
        <4>2. Readable(Taken(buffer)) = <<>>
          BY <1>6, <3>2, ReadableShort
        <4>3. <<>> \o <<>> = <<>>
          OBVIOUS
        <4>4. QED
          BY <1>3, <1>6, <2>1, <4>1, <4>2, <4>3 DEF ConnInv
      <3>3. QED
        BY <3>1, <3>2
    <2>6. QED
      BY <1>5, <2>4, <2>5 DEF EthernetInv
  <1>7. CASE /\ tcpSocketFd = "dead" /\ tcpSocketFd' \in {"dead", "none"}
             /\ UNCHANGED toHost
    <2>1. toHost'[E] = <<>> /\ hostStep'[E] = "off" /\ hostAt(E).step = "off"
      BY <1>3, <1>7 DEF EthernetInv, ConnInv
    <2>2. ConnInv'
      BY <1>4, <2>1 DEF ConnInv
    <2>3. TransferInv(E, session', LastSentSentence', toDev'[E], toHost[E] \o Readable(buffer), hostAt(E))
      <3>1. CASE tcpSocketFd' = "none"
        <4>1. <<>> \in Seq(Requests) /\ 0 \in Nat /\ \A i \in 1..Len(<<>>) : i + 0 \in 1..Len(dev) /\ <<>>[i] = dev[i + 0]
          OBVIOUS
        <4>2. TransferInv(E, session', LastSentSentence', <<>>, toHost[E] \o Readable(buffer), hostAt(E))
          BY <1>1, <1>3, <4>1, RequestsTaken
        <4>3. QED
          BY <1>4, <3>1, <4>2
      <3>2. CASE tcpSocketFd' # "none"
        BY <1>4, <3>2
      <3>3. QED
        BY <3>1, <3>2
    <2>4. /\ session'.UserLoggedOn => session'.ActiveChannel # "NONE"
          /\ KeptInv(E, session', LastSentSentence')
      BY DEF TransferInv
    <2>5. TransferInv(E, session', LastSentSentence', toDev'[E], Pipeline(E)', hostAt(E))
      BY <1>1, <2>1, <2>3, <2>4, NoTransfer
    <2>6. ChannelInv(E)'
      BY <1>3, <2>5 DEF ChannelInv
    <2>7. QED
      BY <1>5, <2>2, <2>6 DEF EthernetInv
  <1>8. QED
    BY <1>1, <1>6, <1>7 DEF TcpWrite

\* What follows the first n elements, seen from the second one.
LEMMA RestOf ==
  ASSUME NEW T, NEW q \in Seq(T), NEW n \in 1..Len(q)
  PROVE  /\ SubSeq(q, n + 1, Len(q)) \in Seq(T) /\ Tail(q) \in Seq(T) /\ n - 1 \in Nat
         /\ \A i \in 1..Len(SubSeq(q, n + 1, Len(q))) :
              i + (n - 1) \in 1..Len(Tail(q)) /\ SubSeq(q, n + 1, Len(q))[i] = Tail(q)[i + (n - 1)]
  <1> DEFINE t == Tail(q)
             r == SubSeq(q, n + 1, Len(q))
             k == Len(q)
  <1>1. k \in Nat /\ q # <<>> /\ n \in 1..k
    OBVIOUS
  <1>2. t \in Seq(T) /\ Len(t) = k - 1 /\ \A i \in 1..(k - 1) : t[i] = q[i + 1]
    BY <1>1
  <1>3. r \in Seq(T) /\ Len(r) = k - n /\ \A i \in 1..(k - n) : r[i] = q[n + i]
    BY <1>1
  <1> HIDE DEF t, r, k
  <1>4. ASSUME NEW i \in 1..Len(r)
        PROVE  i + (n - 1) \in 1..Len(t) /\ r[i] = t[i + (n - 1)]
    <2>1. i \in 1..(k - n) /\ i + (n - 1) \in 1..(k - 1) /\ i + (n - 1) + 1 = n + i
      BY <1>1, <1>3
    <2> DEFINE p == i + (n - 1)
    <2>2. p \in 1..(k - 1) /\ p + 1 = n + i
      BY <2>1
    <2> HIDE DEF p
    <2>3. t[p] = q[n + i]
      BY <1>2, <2>2
    <2>4. QED
      BY <1>2, <1>3, <2>1, <2>3 DEF p
  <1>5. QED
    <2>1. r \in Seq(T) /\ t \in Seq(T) /\ n - 1 \in Nat
      BY <1>1, <1>2, <1>3
    <2>2. \A i \in 1..Len(r) : i + (n - 1) \in 1..Len(t) /\ r[i] = t[i + (n - 1)]
      BY <1>4
    <2>3. QED
      BY <2>1, <2>2, Zenon DEF t, r, k

LEMMA EthernetExchange ==
  ASSUME TypeInv, TypeInv', EthernetInv, ChannelInv(E), ExchangeTcpData
  PROVE  ChannelInv(E)' /\ EthernetInv'
  <1>1. E \in Channels /\ E = "ETHERNET" /\ E # A
    BY DEF E, A, Channels
  <1>2. /\ OutgoingBuffer[E] \in Seq(Bytes) /\ Len(OutgoingBuffer[E]) <= BufSize
        /\ toDev[E] \in Seq(Requests) /\ session' \in Sessions /\ IsReply(LastSentSentence')
        /\ hostAt(E) \in HostStates
    BY <1>1, ChannelTypes, ChannelTypesNext
  <1>3. tcpSocketFd # "none" /\ UNCHANGED hostVars
    BY DEF ExchangeTcpData, ReadTcp, IdleTcp
  <1>4. CASE IdleTcp
    <2>1. /\ OutgoingBuffer' = [OutgoingBuffer EXCEPT ![E] = Left(OutgoingBuffer[E])]
          /\ TcpWrite(Taken(OutgoingBuffer[E]))
          /\ toDev' = [toDev EXCEPT ![E] = IF tcpSocketFd' = "none" THEN <<>> ELSE toDev[E]]
          /\ UNCHANGED <<session, LastSentSentence>>
      BY <1>4 DEF IdleTcp, E
    <2>2. TransferInv(E, session', LastSentSentence', toDev[E], toHost[E] \o Readable(OutgoingBuffer[E]), hostAt(E))
      BY <2>1 DEF ChannelInv, Pipeline
    <2>3. Extends(OutgoingBuffer[E], OutgoingBuffer[E])
      BY DEF Extends
    <2>4. QED
      BY <1>2, <1>3, <2>1, <2>2, <2>3, EthernetWritten
  <1>5. CASE ReadTcp
    <2>1. toDev[E] # <<>>
      BY <1>5 DEF ReadTcp, E
    <2>2. PICK buffer \in BuffersAfter(E, Head(toDev[E])), n \in 1..Len(toDev[E]) :
            /\ Process(E, Head(toDev[E]), buffer)
            /\ OutgoingBuffer' = [OutgoingBuffer EXCEPT ![E] = Left(buffer)]
            /\ TcpWrite(Taken(buffer))
            /\ toDev' = [toDev EXCEPT ![E] = IF tcpSocketFd' = "none" THEN <<>>
                                            ELSE SubSeq(toDev[E], n + 1, Len(toDev[E]))]
      BY <1>5 DEF ReadTcp, E
    <2> DEFINE dev == SubSeq(toDev[E], n + 1, Len(toDev[E]))
               rest == Tail(toDev[E])
    <2>3. /\ TransferInv(E, session', LastSentSentence', rest, toHost[E] \o Readable(buffer), hostAt(E))
          /\ buffer \in Seq(Bytes) /\ Len(buffer) <= BufSize
          /\ Extends(buffer, OutgoingBuffer[E]) \/ Extends(buffer, <<>>)
      BY <1>1, <2>1, <2>2, ExchangeStep DEF EthernetInv
    <2>4. /\ dev \in Seq(Requests) /\ rest \in Seq(Requests) /\ n - 1 \in Nat
          /\ \A i \in 1..Len(dev) : i + (n - 1) \in 1..Len(rest) /\ dev[i] = rest[i + (n - 1)]
      BY <1>2, <2>1, RestOf
    <2>5. TransferInv(E, session', LastSentSentence', dev, toHost[E] \o Readable(buffer), hostAt(E))
      <3> HIDE DEF dev, rest
      <3>1. QED
        BY <1>1, <1>2, <2>3, <2>4, RequestsTaken
    <2>6. QED
      BY <1>2, <1>3, <2>2, <2>3, <2>4, <2>5, EthernetWritten
  <1>6. QED
    BY <1>4, <1>5 DEF ExchangeTcpData

-----------------------------------------------------------------------------
(* The other steps of the controller, the connection and the line.           *)

LEMMA Kept ==
  ASSUME TypeInv, TypeInv', HostsInv, \A c \in Channels : Elsewhere(c),
         tcpSocketFd' = tcpSocketFd \/ tcpSocketFd' = "live"
  PROVE  HostsInv'
  <1>1. \A c \in Channels : ChannelInv(c)'
    BY ElsewhereStep DEF HostsInv
  <1>2. EthernetInv'
    BY TwoChannels, EthernetElsewhere DEF HostsInv
  <1>3. QuietInv'
    BY TwoChannels DEF HostsInv, QuietInv, Elsewhere
  <1>4. QED
    BY <1>1, <1>2, <1>3 DEF HostsInv

LEMMA AcceptStep ==
  ASSUME TypeInv, TypeInv', HostsInv, AcceptTcp
  PROVE  HostsInv'
  <1>1. /\ UNCHANGED <<toDev, toHost, hostVars>> /\ tcpSocketFd' = "live"
        /\ OutgoingBuffer' = [OutgoingBuffer EXCEPT ![A] = <<>>]
        /\ \/ session' = Cleared(session)
           \/ UNCHANGED <<session, LastSentSentence>>
    BY DEF AcceptTcp, A
  <1>2. OutgoingBuffer' = OutgoingBuffer
    BY <1>1, TwoChannels DEF HostsInv, QuietInv, TypeInv, DeviceTyped
  <1>3. session \in Sessions
    BY DEF TypeInv, DeviceTyped
  <1>4. ASSUME NEW c \in Channels
        PROVE  Elsewhere(c)
    <2>1. hostAt(c)' = hostAt(c)
      BY <1>1 DEF hostVars, hostAt
    <2>2. Aside(c, session, LastSentSentence, session', LastSentSentence')
      <3>1. CASE session' = Cleared(session)
        <4>1. c # "NONE"
          BY DEF Channels
        <4>2. ~Cleared(session).UserLoggedOn /\ Cleared(session).ActiveChannel = "NONE"
          BY <1>3 DEF Cleared, Sessions
        <4>3. QED
          BY <3>1, <4>1, <4>2 DEF Aside, Active
      <3>2. CASE UNCHANGED <<session, LastSentSentence>>
        BY <3>2, UnchangedAside DEF HostsInv
      <3>3. QED
        BY <1>1, <3>1, <3>2
    <2>3. QED
      BY <1>1, <1>2, <2>1, <2>2 DEF Elsewhere
  <1>5. QED
    BY <1>1, <1>4, Kept

LEMMA QuietStep ==
  ASSUME TypeInv, TypeInv', HostsInv, NoConnection \/ HostConnect \/ UNCHANGED vars
  PROVE  HostsInv'
  <1>1. UNCHANGED <<session, LastSentSentence, OutgoingBuffer, tcpSocketFd, toDev, toHost, hostVars>>
    BY DEF NoConnection, HostConnect, vars, devVars, tcpVars
  <1>2. ASSUME NEW c \in Channels
        PROVE  Elsewhere(c)
    <2>1. hostAt(c)' = hostAt(c)
      BY <1>1 DEF hostVars, hostAt
    <2>2. QED
      BY <1>1, <2>1, UnchangedAside DEF HostsInv, Elsewhere
  <1>3. QED
    BY <1>1, <1>2, Kept

LEMMA KeepAliveStep ==
  ASSUME TypeInv, TypeInv', HostsInv, KeepAlive
  PROVE  HostsInv'
  <1> DEFINE out == OutgoingBuffer[E]
  <1>1. /\ UNCHANGED <<session, LastSentSentence, tcpSocketFd, toDev, toHost, hostVars>>
        /\ OutgoingBuffer' = [OutgoingBuffer EXCEPT ![E] = Append(@, Space)]
        /\ tcpSocketFd # "none" => out = <<>>
    BY DEF KeepAlive, E, tcpVars
  <1>2. A \in Channels /\ E \in Channels /\ A # E
    BY TwoChannels
  <1>3. OutgoingBuffer'[A] = OutgoingBuffer[A] /\ OutgoingBuffer'[E] = Append(out, Space)
    BY <1>1, <1>2 DEF TypeInv, DeviceTyped
  <1>4. \A c \in Channels : hostAt(c)' = hostAt(c)
    BY <1>1 DEF hostVars, hostAt
  <1>5. out \in Seq(Bytes) /\ Space \in Bytes /\ Readable(out) \in Seq(Responses)
    BY <1>2, ChannelTypes DEF Bytes
  <1> HIDE DEF out
  <1>6. /\ Append(out, Space) = out \o <<Space>> /\ <<Space>> \in Seq(Bytes)
        /\ Len(<<Space>>) = 1 /\ <<Space>>[1] = Space /\ Len(out) \in Nat
    BY <1>5, AppendIsConcat
  <1>7. Readable(Append(out, Space)) = Readable(out)
    <2>1. Space \notin Responses
      BY DEF Space, Responses, Kinds
    <2>2. Readable(<<Space>>) = <<>>
      <3> DEFINE data == <<Space>>
      <3>1. /\ data \in Seq(Bytes) /\ \A i \in 1..Len(data) : i = 1 /\ data[i] = Space
        BY <1>6
      <3> HIDE DEF data
      <3>2. Readable(data) = <<>>
        BY <2>1, <3>1, ReadableOne
      <3>3. QED
        BY <3>2 DEF data
    <2>3. Readable(out \o <<Space>>) = Readable(out) \o Readable(<<Space>>)
      BY <1>5, <1>6, ReadableJoin
    <2>4. Readable(out) \o <<>> = Readable(out)
      BY <1>5, ConcatEmptySeq
    <2>5. QED
      BY <1>6, <2>2, <2>3, <2>4
  <1>8. Elsewhere(A)
    BY <1>1, <1>2, <1>3, <1>4, UnchangedAside DEF HostsInv, Elsewhere
  <1>9. ChannelInv(A)'
    BY <1>2, <1>8, ElsewhereStep DEF HostsInv
  <1>10. ChannelInv(E)'
    <2>1. Pipeline(E)' = Pipeline(E)
      BY <1>1, <1>3, <1>7 DEF Pipeline, out
    <2>2. QED
      BY <1>1, <1>2, <1>4, <2>1 DEF HostsInv, ChannelInv
  <1>11. /\ Len(Append(out, Space)) = Len(out) + 1
         /\ Append(out, Space)[Len(out) + 1] = Space
         /\ \A i \in 1..Len(out) : Append(out, Space)[i] = out[i]
    BY <1>5
  <1>12. \A i \in 1..(Len(out) + 1) : Append(out, Space)[i].kind # "space" =>
                                        i \in 1..Len(out) /\ Append(out, Space)[i] = out[i]
    BY <1>6, <1>11 DEF Space
  <1>13. ConnInv'
    BY <1>1 DEF HostsInv, EthernetInv, ConnInv, hostVars
  <1>14. FullInv'
    <2>1. CASE tcpSocketFd = "none"
      <3>1. /\ hostStep'[E] = "off" /\ toHost'[E] = <<>> /\ toDev'[E] = <<>>
        BY <1>1, <2>1 DEF HostsInv, EthernetInv, ConnInv, hostVars
      <3>2. \A i \in 1..Len(<<>>) : FALSE
        OBVIOUS
      <3>3. QED
        BY <3>1, <3>2 DEF FullInv
    <2>2. CASE tcpSocketFd # "none"
      <3>1. Len(OutgoingBuffer'[E]) = 1
        <4>1. out = <<>> /\ Len(<<>>) = 0
          BY <1>1, <2>2 DEF out
        <4>2. QED
          BY <1>3, <1>11, <4>1
      <3>2. BufSize # 1
        BY BufferAssumption
      <3>3. QED
        BY <3>1, <3>2 DEF FullInv
    <2>3. QED
      BY <2>1, <2>2
  <1>15. OneInv'
    BY <1>3, <1>11, <1>12 DEF HostsInv, EthernetInv, OneInv, out
  <1>16. PendingInv'
    <2>1. ASSUME NEW i \in 1..(Len(out) + 1), Append(out, Space)[i].kind = "EOK"
          PROVE  i \in 1..Len(out) /\ Append(out, Space)[i] = out[i]
      BY <1>12, <2>1
    <2>2. PendingInv
      BY DEF HostsInv, EthernetInv
    <2>3. QED
      BY <1>1, <1>3, <1>11, <2>1, <2>2 DEF PendingInv, out
  <1>17. QuietInv'
    BY <1>3 DEF HostsInv, QuietInv
  <1>18. QED
    BY <1>9, <1>10, <1>13, <1>14, <1>15, <1>16, <1>17, TwoChannels DEF HostsInv, EthernetInv

LEMMA DisconnectStep ==
  ASSUME TypeInv, TypeInv', HostsInv, HostDisconnect
  PROVE  HostsInv'
  <1>1. /\ UNCHANGED <<session, LastSentSentence, OutgoingBuffer, toDev, hostEnc, got>> /\ tcpSocketFd' = "dead"
        /\ Move(E, "off", 0)
        /\ toHost' = [toHost EXCEPT ![E] = <<>>]
    BY DEF HostDisconnect, devVars, E
  <1>2. A \in Channels /\ E \in Channels /\ A # E
    BY TwoChannels
  <1>3. toHost'[A] = toHost[A] /\ toHost'[E] = <<>> /\ hostStep'[E] = "off"
    BY <1>1, <1>2 DEF TypeInv, LinesTyped, HostsTyped, Move
  <1>4. hostAt(A)' = hostAt(A)
    BY <1>1, <1>2 DEF TypeInv, HostsTyped, Move, hostAt
  <1>5. Elsewhere(A)
    BY <1>1, <1>2, <1>3, <1>4, UnchangedAside DEF HostsInv, Elsewhere
  <1>6. ChannelInv(A)'
    BY <1>2, <1>5, ElsewhereStep DEF HostsInv
  <1>7. ChannelInv(E)'
    <2>1. hostAt(E)' \in HostStates /\ hostAt(E)'.step = "off" /\ hostAt(E)'.got = hostAt(E).got
      BY <1>1, <1>2, <1>3, ChannelTypesNext DEF hostAt
    <2>2. \A i \in 1..Len(hostAt(E).got) : hostAt(E).got[i] = i
      BY <1>2 DEF HostsInv, ChannelInv, TransferInv, GotInv
    <2>3. TransferInv(E, session, LastSentSentence, toDev[E], Pipeline(E)', hostAt(E)')
      BY <1>2, <2>1, <2>2, ChannelTypes, HostStopped DEF HostsInv, ChannelInv
    <2>4. QED
      BY <1>1, <2>3 DEF ChannelInv
  <1>8. EthernetInv'
    <2>1. ConnInv'
      BY <1>1, <1>3 DEF ConnInv
    <2>2. FullInv'
      BY <1>1, <1>3 DEF HostsInv, EthernetInv, FullInv, Opening
    <2>3. OneInv' /\ PendingInv'
      BY <1>1 DEF HostsInv, EthernetInv, OneInv, PendingInv
    <2>4. QED
      BY <2>1, <2>2, <2>3 DEF EthernetInv
  <1>9. QED
    BY <1>1, <1>6, <1>7, <1>8, TwoChannels DEF HostsInv, QuietInv

LEMMA ExchangesStep ==
  ASSUME TypeInv, TypeInv', HostsInv, ExchangeUARTData \/ ExchangeTcpData
  PROVE  HostsInv'
  <1>1. A \in Channels /\ E \in Channels /\ A # E
    BY TwoChannels
  <1>2. /\ toDev \in [Channels -> Seq(Requests)] /\ toHost \in [Channels -> Seq(Responses)]
        /\ OutgoingBuffer \in [Channels -> Seq(Bytes)]
    BY DEF TypeInv, DeviceTyped, LinesTyped
  <1>3. QuietInv /\ EthernetInv /\ ChannelInv(A) /\ ChannelInv(E)
    BY <1>1 DEF HostsInv
  <1>4. \A c \in Channels : hostAt(c)' = hostAt(c)
    BY DEF ExchangeUARTData, ReadUART, IdleUART, ExchangeTcpData, ReadTcp, IdleTcp, hostVars, hostAt
  <1>5. CASE ExchangeUARTData
    <2>1. ChannelInv(A)' /\ QuietInv'
      BY <1>3, <1>5, SerialExchange
    <2>2. UNCHANGED tcpSocketFd
      BY <1>5 DEF ExchangeUARTData, ReadUART, IdleUART, tcpVars
    <2>3. OutgoingBuffer'[E] = OutgoingBuffer[E] /\ toDev'[E] = toDev[E] /\ toHost'[E] = toHost[E]
      BY <1>1, <1>2, <1>5 DEF ExchangeUARTData, ReadUART, IdleUART, A
    <2>4. Aside(E, session, LastSentSentence, session', LastSentSentence')
      <3>1. CASE IdleUART
        BY <1>1, <1>3, <3>1, UnchangedAside DEF IdleUART
      <3>2. CASE ReadUART
        <4>1. PICK buffer \in BuffersAfter(A, Head(toDev[A])) : Process(A, Head(toDev[A]), buffer)
          BY <3>2 DEF ReadUART, A
        <4>2. toDev[A] # <<>>
          BY <3>2 DEF ReadUART, A
        <4>3. QED
          BY <1>1, <1>3, <4>1, <4>2, OtherProcess
      <3>3. QED
        BY <1>5, <3>1, <3>2 DEF ExchangeUARTData
    <2>5. Elsewhere(E)
      BY <1>1, <1>4, <2>3, <2>4 DEF Elsewhere
    <2>6. ChannelInv(E)' /\ EthernetInv'
      BY <1>1, <1>3, <2>2, <2>5, ElsewhereStep, EthernetElsewhere
    <2>7. QED
      BY <2>1, <2>6, TwoChannels DEF HostsInv
  <1>6. CASE ExchangeTcpData
    <2>1. ChannelInv(E)' /\ EthernetInv'
      BY <1>3, <1>6, EthernetExchange
    <2>2. OutgoingBuffer'[A] = OutgoingBuffer[A] /\ toDev'[A] = toDev[A] /\ toHost'[A] = toHost[A]
      BY <1>1, <1>2, <1>6 DEF ExchangeTcpData, ReadTcp, IdleTcp, TcpWrite, E
    <2>3. Aside(A, session, LastSentSentence, session', LastSentSentence')
      <3>1. CASE IdleTcp
        BY <1>1, <1>3, <3>1, UnchangedAside DEF IdleTcp
      <3>2. CASE ReadTcp
        <4>1. PICK buffer \in BuffersAfter(E, Head(toDev[E])) : Process(E, Head(toDev[E]), buffer)
          BY <3>2 DEF ReadTcp, E
        <4>2. toDev[E] # <<>>
          BY <3>2 DEF ReadTcp, E
        <4>3. QED
          BY <1>1, <1>3, <4>1, <4>2, OtherProcess
      <3>3. QED
        BY <1>6, <3>1, <3>2 DEF ExchangeTcpData
    <2>4. Elsewhere(A)
      BY <1>1, <1>4, <2>2, <2>3 DEF Elsewhere
    <2>5. ChannelInv(A)' /\ QuietInv'
      BY <1>1, <1>3, <2>2, <2>4, ElsewhereStep DEF QuietInv
    <2>6. QED
      BY <2>1, <2>5, TwoChannels DEF HostsInv
  <1>7. QED
    BY <1>5, <1>6

LEMMA QuietPipeline ==
  ASSUME TypeInv, QuietInv
  PROVE  Pipeline(A) = toHost[A]
  <1>1. toHost[A] \in Seq(Responses)
    BY TwoChannels, ChannelTypes
  <1>2. QED
    BY <1>1, ReadableShort, ConcatEmptySeq DEF QuietInv, Pipeline

LEMMA FaultStep ==
  ASSUME TypeInv, TypeInv', HostsInv, Lose \/ Garble
  PROVE  HostsInv'
  <1>1. A \in Channels /\ E \in Channels /\ A # E
    BY TwoChannels
  <1>2. toDev \in [Channels -> Seq(Requests)] /\ toHost \in [Channels -> Seq(Responses)]
    BY DEF TypeInv, LinesTyped
  <1>3. UNCHANGED <<session, LastSentSentence, OutgoingBuffer, tcpSocketFd>> /\ \A c \in Channels : hostAt(c)' = hostAt(c)
    BY DEF Lose, Garble, devVars, tcpVars, hostVars, hostAt
  <1>4. QuietInv' /\ Pipeline(A) = toHost[A]
    BY <1>3, QuietPipeline DEF HostsInv, QuietInv
  <1>5. Pipeline(A)' = toHost'[A]
    <2>1. toHost'[A] \in Seq(Responses) /\ OutgoingBuffer'[A] = <<>>
      BY <1>1, <1>4, ChannelTypesNext DEF QuietInv
    <2>2. QED
      BY <2>1, ReadableShort, ConcatEmptySeq DEF Pipeline
  <1>6. TransferInv(A, session, LastSentSentence, toDev[A], toHost[A], hostAt(A))
    BY <1>1, <1>4 DEF HostsInv, ChannelInv
  <1>7. toDev'[E] = toDev[E] /\ toHost'[E] = toHost[E]
    BY <1>1, <1>2 DEF Lose, Garble, A
  <1>8. Elsewhere(E)
    BY <1>1, <1>3, <1>7, UnchangedAside DEF HostsInv, Elsewhere
  <1>9. SUFFICES TransferInv(A, session, LastSentSentence, toDev'[A], toHost'[A], hostAt(A))
    <2>1. ASSUME TransferInv(A, session, LastSentSentence, toDev'[A], toHost'[A], hostAt(A))
          PROVE  ChannelInv(A)'
      BY <1>1, <1>3, <1>5, <2>1 DEF ChannelInv
    <2>2. ChannelInv(E)' /\ EthernetInv'
      BY <1>1, <1>3, <1>8, ElsewhereStep, EthernetElsewhere DEF HostsInv
    <2>3. QED
      BY <1>4, <2>1, <2>2, TwoChannels DEF HostsInv
  <1>10. CASE toDev[A] # <<>> /\ toDev' = [toDev EXCEPT ![A] = Tail(@)] /\ UNCHANGED toHost
    <2>1. toDev'[A] = Tail(toDev[A])
      BY <1>1, <1>2, <1>10
    <2>2. QED
      BY <1>1, <1>6, <1>10, <2>1, ChannelTypes, RequestTaken
  <1>11. CASE toHost[A] # <<>> /\ toHost' = [toHost EXCEPT ![A] = Tail(@)] /\ UNCHANGED toDev
    <2>1. toHost'[A] = Tail(toHost[A])
      BY <1>1, <1>2, <1>11
    <2>2. QED
      BY <1>1, <1>6, <1>11, <2>1, ChannelTypes, ResponseTaken
  <1>12. CASE Garble
    <2>1. PICK n \in 0..MaxNum :
            toDev' = [toDev EXCEPT ![A] = <<[Head(toDev[A]) EXCEPT !.num = n, !.ok = FALSE]>> \o Tail(@)]
      BY <1>12 DEF Garble, A
    <2>2. toDev[A] # <<>> /\ UNCHANGED toHost
      BY <1>12 DEF Garble, A
    <2> DEFINE m == [Head(toDev[A]) EXCEPT !.num = n, !.ok = FALSE]
    <2>3. toDev'[A] = <<m>> \o Tail(toDev[A])
      BY <1>1, <1>2, <2>1
    <2>4. Head(toDev[A]) \in Requests
      BY <1>1, <2>2, LastOfLines
    <2>5. /\ m.tag = Head(toDev[A]).tag /\ m.arg = Head(toDev[A]).arg /\ m.enc = Head(toDev[A]).enc
          /\ ~m.ok
      BY <2>4 DEF Requests, Sentences
    <2>6. A # "ETHERNET"
      BY DEF A
    <2> HIDE DEF m
    <2>7. TransferInv(A, session, LastSentSentence, <<m>> \o Tail(toDev[A]), toHost[A], hostAt(A))
      BY <1>1, <1>6, <2>2, <2>5, <2>6, ChannelTypes, RequestGarbled
    <2>8. QED
      BY <2>2, <2>3, <2>7
  <1>13. QED
    BY <1>10, <1>11, <1>12 DEF Lose, A

-----------------------------------------------------------------------------
(* The hosts.                                                                *)

\* What a host turns to.
LEMMA HostMoves ==
  ASSUME TypeInv, "missing" \notin Logins, NEW c \in Channels, NEW step \in Steps, NEW n, Move(c, step, n)
  PROVE  /\ hostStep'[c] = step /\ hostNum'[c] = n
         /\ step = "LGN" => hostArg'[c] # "missing"
  <1>1. PICK arg \in (CASE step = "GDT" -> Encryption [] step = "LGN" -> Logins [] OTHER -> {"none"}) :
          hostArg' = [hostArg EXCEPT ![c] = arg]
    BY DEF Move
  <1>2. hostArg'[c] = arg
    BY <1>1 DEF TypeInv, HostsTyped
  <1>3. step = "LGN" => arg # "missing"
    BY <1>1
  <1>4. QED
    BY <1>2, <1>3 DEF Move, TypeInv, HostsTyped

\* What the host takes is the first response of the pipeline.
LEMMA PipelineTaken ==
  ASSUME NEW host \in Seq(Responses), host # <<>>, NEW buffer \in Seq(Bytes)
  PROVE  /\ host \o Readable(buffer) # <<>>
         /\ Head(host \o Readable(buffer)) = Head(host)
         /\ Tail(host \o Readable(buffer)) = Tail(host) \o Readable(buffer)
  <1>1. Readable(buffer) \in Seq(Responses)
    BY ReadableTyped DEF Bytes
  <1>2. ASSUME NEW r \in Seq(Responses)
        PROVE  host \o r # <<>> /\ Head(host \o r) = Head(host) /\ Tail(host \o r) = Tail(host) \o r
    <2> DEFINE all == host \o r
               t == Tail(host)
    <2>1. all \in Seq(Responses) /\ Len(all) = Len(host) + Len(r) /\ Len(host) \in Nat \ {0} /\ Len(r) \in Nat
      OBVIOUS
    <2>2. all # <<>> /\ Head(all) = Head(host)
      OBVIOUS
    <2>3. Tail(all) = t \o r
      <3>1. Len(Tail(all)) = Len(t \o r) /\ Tail(all) \in Seq(Responses) /\ t \o r \in Seq(Responses)
        OBVIOUS
      <3>2. \A i \in 1..Len(Tail(all)) : Tail(all)[i] = (t \o r)[i]
        OBVIOUS
      <3>3. QED
        BY <3>1, <3>2, SeqEqual
    <2>4. QED
      BY <2>2, <2>3
  <1>3. QED
    BY <1>1, <1>2

LEMMA ReceiveStep ==
  ASSUME TypeInv, TypeInv', "missing" \notin Logins, NEW c \in Channels, ChannelInv(c), HostReceive(c)
  PROVE  ChannelInv(c)'
  <1> DEFINE host == Pipeline(c)
             x == Head(host)
             t == Tail(host)
             next == hostNum[c] + 1
             s == session
             last == LastSentSentence
             h == hostAt(c)
             g == hostAt(c)'
             d == toDev[c]
  <1>1. host # <<>> /\ x = Head(toHost[c])
    BY ChannelTypes, PipelineTaken DEF HostReceive, Pipeline
  <1>2. /\ toDev \in [Channels -> Seq(Requests)] /\ toHost \in [Channels -> Seq(Responses)]
        /\ hostEnc \in [Channels -> BOOLEAN] /\ got \in [Channels -> Seq(0..NChunks)]
    BY DEF TypeInv, LinesTyped, HostsTyped
  <1>3. UNCHANGED <<session, LastSentSentence, OutgoingBuffer>>
    BY DEF HostReceive, devVars
  <1>4. Pipeline(c)' = t
    <2>1. toHost'[c] = Tail(toHost[c]) /\ toHost[c] # <<>>
      BY <1>2 DEF HostReceive
    <2> DEFINE out == OutgoingBuffer[c]
               q == toHost[c]
    <2>2. q \in Seq(Responses) /\ out \in Seq(Bytes)
      BY ChannelTypes
    <2>3. Pipeline(c) = q \o Readable(out) /\ Pipeline(c)' = Tail(q) \o Readable(out)
      BY <1>3, <2>1 DEF Pipeline
    <2> HIDE DEF out, q
    <2>4. Tail(q \o Readable(out)) = Tail(q) \o Readable(out)
      BY <2>1, <2>2, PipelineTaken DEF q
    <2>5. QED
      BY <2>3, <2>4
  <1>5. /\ s \in Sessions /\ IsReply(last) /\ d \in Seq(Requests) /\ host \in Seq(Responses)
        /\ h \in HostStates /\ g \in HostStates
    BY ChannelTypes, ChannelTypesNext
  <1>6. x \in Responses /\ t \in Seq(Responses)
    BY <1>1, <1>5, HeadTailProperties
  <1>7. TransferInv(c, s, last, d, host, h)
    BY DEF ChannelInv
  <1>8. TransferInv(c, s, last, d, t, h)
    BY <1>1, <1>5, <1>7, ResponseTaken
  <1>9. /\ h.step = hostStep[c] /\ h.num = hostNum[c] /\ h.enc = hostEnc[c] /\ h.got = got[c]
        /\ g.step = hostStep'[c] /\ g.num = hostNum'[c] /\ g.arg = hostArg'[c] /\ g.enc = hostEnc'[c] /\ g.got = got'[c]
    BY DEF hostAt
  <1>10. SUFFICES TransferInv(c, s, last, toDev'[c], t, g)
    BY <1>3, <1>4 DEF ChannelInv
  <1>11. {"off", "LGN", "CFI"} \cup Commands \subseteq Steps /\ Commands \subseteq {"GFI", "SEP"}
    BY SessionAssumption DEF Steps
  <1>12. \A i \in 1..Len(h.got) : h.got[i] = i
    BY <1>7 DEF TransferInv, GotInv
  <1> HIDE DEF host, x, t, s, last, h, g
  <1>13. CASE hostStep[c] = "GDT" /\ Move(c, "LGN", next) /\ UNCHANGED <<got, toDev>>
    <2>1. g.step = "LGN" /\ g.num = h.num + 1 /\ g.arg # "missing" /\ g.got = h.got
      BY <1>9, <1>11, <1>13, HostMoves
    <2>2. QED
      BY <1>1, <1>5, <1>7, <1>9, <1>13, <2>1, ToLogin DEF t
  <1>14. CASE /\ IsAnswer(c, x) /\ x.kind = "EOK" /\ hostStep[c] = "LGN"
              /\ \E step \in Commands : Move(c, step, next)
              /\ UNCHANGED <<hostEnc, got, toDev>>
    <2>1. g.step \in {"GFI", "SEP"} /\ g.num = h.num + 1 /\ g.enc = h.enc /\ g.got = h.got
      <3>1. PICK step \in Commands : Move(c, step, next)
        BY <1>14
      <3>2. step \in Steps /\ step \in {"GFI", "SEP"}
        BY <1>11
      <3>3. hostStep'[c] = step /\ hostNum'[c] = next
        BY <3>1, <3>2, HostMoves
      <3>4. hostEnc'[c] = hostEnc[c] /\ got'[c] = got[c]
        BY <1>14
      <3>5. QED
        BY <1>9, <3>2, <3>3, <3>4
    <2>2. x.num = h.num
      BY <1>9, <1>14 DEF IsAnswer
    <2>3. QED
      BY <1>1, <1>5, <1>7, <1>9, <1>14, <2>1, <2>2, ToCommand DEF x, t
  <1>15. ASSUME IsAnswer(c, x), x.kind = "FIL"
         PROVE  h.step \in {"GFI", "CFI"} /\ x.num = h.num
    BY <1>9, <1>15 DEF IsAnswer, Awaited, Refusals
  <1>16. CASE /\ IsAnswer(c, x) /\ x.kind = "FIL" /\ x.chunk \in 1..(NChunks - 1)
              /\ Move(c, "CFI", next)
              /\ got' = [got EXCEPT ![c] = Append(@, x.chunk)]
              /\ UNCHANGED toDev
    <2>1. g.step = "CFI" /\ g.num = h.num + 1 /\ g.got = Append(h.got, x.chunk)
      BY <1>1, <1>2, <1>9, <1>11, <1>16, HostMoves
    <2>2. QED
      BY <1>1, <1>5, <1>7, <1>15, <1>16, <2>1, ToNextPart DEF x, t
  <1>17. CASE /\ IsAnswer(c, x) /\ x.kind = "FIL"
              /\ next <= MaxNum
              /\ Move(c, "off", 0)
              /\ got' = [got EXCEPT ![c] = Append(@, x.chunk)]
              /\ toDev' = [toDev EXCEPT ![c] = Append(@, [sentence(c) EXCEPT !.tag = "LOF", !.num = next])]
    <2> DEFINE m == [sentence(c) EXCEPT !.tag = "LOF", !.num = next]
    <2>1. g.step = "off" /\ g.got = Append(h.got, x.chunk)
      BY <1>1, <1>2, <1>9, <1>11, <1>17, HostMoves
    <2>2. \A i \in 1..Len(g.got) : g.got[i] = i
      <3>1. PartInv(x, h) /\ GotInv(h)
        BY <1>1, <1>5, <1>7, <1>15, <1>17, HeadPart DEF x
      <3>2. h \in HostStates /\ x.kind = "FIL" /\ x.num = h.num
        BY <1>5, <1>15, <1>17
      <3>3. \A i \in 1..Len(Append(h.got, x.chunk)) : Append(h.got, x.chunk)[i] = i
        BY ONLY <3>1, <3>2, PartReceived
      <3>4. QED
        BY ONLY <2>1, <3>3
    <2>3. TransferInv(c, s, last, d, t, g)
      BY <1>5, <1>8, <2>1, <2>2, HostStopped
    <2>4. m \in Requests /\ m.tag = "LOF" /\ m.ok
      <3>1. next \in 0..MaxNum
        BY <1>1, <1>17, ProtocolAssumption DEF TypeInv, HostsTyped
      <3>2. QED
        BY <1>1, <3>1, SentenceTyped DEF sentence
    <2>5. toDev'[c] = Append(d, m)
      BY <1>1, <1>2, <1>17
    <2> HIDE DEF m, d
    <2>6. TransferInv(c, s, last, Append(d, m), t, g)
      BY <1>5, <2>1, <2>3, <2>4, HostSent
    <2>7. QED
      BY <2>5, <2>6
  <1>18. CASE Move(c, "off", 0) /\ UNCHANGED <<got, toDev>>
    <2>1. g.step = "off" /\ g.got = h.got
      BY <1>9, <1>11, <1>18, HostMoves
    <2>2. QED
      BY <1>5, <1>8, <1>12, <1>18, <2>1, HostStopped
  <1>19. CASE UNCHANGED <<toDev, hostVars>>
    <2>1. g = h
      BY <1>19 DEF hostVars, hostAt, g, h
    <2>2. QED
      BY <1>8, <1>19, <2>1
  <1>20. QED
    BY <1>1, <1>13, <1>14, <1>16, <1>17, <1>18, <1>19 DEF HostReceive


LEMMA StartStep ==
  ASSUME TypeInv, TypeInv', "missing" \notin Logins, NEW c \in Channels, ChannelInv(c), HostStart(c),
         c = A => QuietInv, c = E => OneInv /\ PendingInv
  PROVE  ChannelInv(c)'
  <1> DEFINE h == hostAt(c)
             g == hostAt(c)'
             out == OutgoingBuffer[c]
             host == Pipeline(c)
  <1>1. UNCHANGED <<session, LastSentSentence, OutgoingBuffer, toDev, toHost>>
    BY DEF HostStart, devVars
  <1>2. /\ g \in HostStates /\ session \in Sessions /\ host \in Seq(Responses) /\ h \in HostStates
        /\ out \in Seq(Bytes) /\ Readable(out) \in Seq(Responses)
    BY ChannelTypes, ChannelTypesNext
  <1>3. host = Readable(out)
    <2>1. toHost[c] = <<>>
      BY DEF HostStart
    <2>2. QED
      BY <1>2, <2>1, ConcatEmptySeq DEF Pipeline
  <1>4. PICK step \in {"GDT", "LGN"} : Move(c, step, 1)
    BY DEF HostStart
  <1>5. /\ g.step = step /\ g.num = 1 /\ g.got = <<>> /\ ~g.enc
        /\ step = "LGN" => g.arg # "missing"
    <2>1. step \in Steps
      BY DEF Steps
    <2>2. hostEnc'[c] = FALSE /\ got'[c] = <<>>
      BY DEF HostStart, TypeInv, HostsTyped
    <2>3. QED
      BY <1>4, <2>1, <2>2, HostMoves DEF hostAt
  <1>6. /\ \A i, j \in 1..Len(out) : out[i].kind # "space" /\ out[j].kind # "space" => i = j
        /\ \A i \in 1..Len(out) :
             out[i].kind = "EOK" /\ Active(c, session) =>
               /\ ~Is(LastSentSentence, "FIL")
               /\ session.ExpectedSentenceNum <= out[i].num + 1 \/ session.ExpectedSentenceNum <= 2
    <2>1. CASE c = A
      <3>1. out = <<>> /\ \A i \in 1..Len(<<>>) : FALSE
        BY <2>1 DEF QuietInv
      <3>2. QED
        BY <3>1
    <2>2. CASE c = E
      BY <2>2 DEF OneInv, PendingInv
    <2>3. QED
      BY <2>1, <2>2, TwoChannels
  <1>7. /\ Len(host) <= 1
        /\ \A i \in 1..Len(host) :
             host[i].kind = "EOK" /\ Active(c, session) =>
               /\ ~Is(LastSentSentence, "FIL")
               /\ session.ExpectedSentenceNum <= host[i].num + 1 \/ session.ExpectedSentenceNum <= 2
    <2> HIDE DEF out, host
    <2>1. host = <<>> \/ \E j \in 1..Len(out) : host = <<out[j]>>
      BY <1>2, <1>3, <1>6, ReadableOne
    <2>2. CASE host = <<>>
      BY <2>2
    <2>3. CASE \E j \in 1..Len(out) : host = <<out[j]>>
      <3>1. PICK j \in 1..Len(out) : host = <<out[j]>>
        BY <2>3
      <3>2. Len(host) = 1 /\ host[1] = out[j]
        BY <3>1
      <3>3. \A i \in 1..Len(host) : host[i] = out[j]
        BY <3>2
      <3>4. QED
        BY <1>6, <3>2, <3>3
    <2>4. QED
      BY <2>1, <2>2, <2>3
  <1>8. TransferInv(c, session, LastSentSentence, toDev[c], host, h) /\ toDev[c] = <<>>
    BY DEF ChannelInv, HostStart
  <1> HIDE DEF h, g, host, out
  <1>9. TransferInv(c, session, LastSentSentence, toDev[c], host, g)
    BY <1>2, <1>4, <1>5, <1>7, <1>8, HostStarted
  <1>10. QED
    BY <1>1, <1>9 DEF ChannelInv, Pipeline, g, host

LEMMA HostStep ==
  ASSUME TypeInv, TypeInv', "missing" \notin Logins, NEW c \in Channels, ChannelInv(c), Host(c),
         c = A => QuietInv, c = E => OneInv /\ PendingInv
  PROVE  ChannelInv(c)'
  <1> DEFINE h == hostAt(c)
             g == hostAt(c)'
  <1>1. TransferInv(c, session, LastSentSentence, toDev[c], Pipeline(c), h)
    BY DEF ChannelInv
  <1>2. /\ session \in Sessions /\ toDev[c] \in Seq(Requests) /\ Pipeline(c) \in Seq(Responses)
        /\ h \in HostStates /\ g \in HostStates
    BY ChannelTypes, ChannelTypesNext
  <1>3. CASE HostStart(c)
    BY <1>3, StartStep
  <1>4. CASE HostSend(c)
    <2> DEFINE m == sentence(c)
    <2>1. g = h /\ UNCHANGED <<session, LastSentSentence, OutgoingBuffer, toHost>>
      BY <1>4 DEF HostSend, devVars, hostVars, hostAt
    <2>2. toDev'[c] = Append(toDev[c], m)
      BY <1>4 DEF HostSend, TypeInv, LinesTyped
    <2>3. m \in Requests /\ h.step # "off"
      BY <1>4, SentenceTyped DEF HostSend, hostAt
    <2>4. /\ m.tag = h.step /\ m.num = h.num /\ m.arg = h.arg
          /\ m.enc = h.enc /\ m.ok
      BY DEF sentence, hostAt
    <2> HIDE DEF m, h, g
    <2>5. m.tag # "unreadable"
      BY <1>2, <2>4 DEF HostStates, Steps
    <2>6. TransferInv(c, session, LastSentSentence, Append(toDev[c], m), Pipeline(c), h)
      BY <1>1, <1>2, <2>3, <2>4, <2>5, HostSent
    <2>7. QED
      BY <2>1, <2>2, <2>6 DEF ChannelInv, Pipeline, g, h
  <1>5. CASE HostReceive(c)
    BY <1>5, ReceiveStep
  <1>6. CASE HostGiveUp(c)
    <2>1. UNCHANGED <<session, LastSentSentence, OutgoingBuffer, toDev, toHost, got>> /\ Move(c, "off", 0)
      BY <1>6 DEF HostGiveUp, devVars
    <2>2. "off" \in Steps
      BY DEF Steps
    <2>3. g.step = "off" /\ g.got = h.got
      BY <2>1, <2>2, HostMoves DEF hostAt
    <2>4. \A i \in 1..Len(h.got) : h.got[i] = i
      BY <1>1 DEF TransferInv, GotInv
    <2> HIDE DEF h, g
    <2>5. TransferInv(c, session, LastSentSentence, toDev[c], Pipeline(c), g)
      BY <1>1, <1>2, <2>3, <2>4, HostStopped
    <2>6. QED
      BY <2>1, <2>5 DEF ChannelInv, Pipeline, g
  <1>7. QED
    BY <1>3, <1>4, <1>5, <1>6 DEF Host

LEMMA EthernetHostStep ==
  ASSUME TypeInv, TypeInv', "missing" \notin Logins, EthernetInv, Host(E)
  PROVE  EthernetInv'
  <1>1. E \in Channels /\ E = "ETHERNET" /\ E # "SERIAL_A"
    BY DEF E, Channels
  <1>2. /\ toDev \in [Channels -> Seq(Requests)] /\ hostEnc \in [Channels -> BOOLEAN]
    BY DEF TypeInv, LinesTyped, HostsTyped
  <1>3. UNCHANGED <<session, LastSentSentence, OutgoingBuffer, tcpSocketFd>>
    BY DEF Host, HostStart, HostSend, HostReceive, HostGiveUp, devVars, tcpVars
  <1>4. OneInv' /\ PendingInv'
    BY <1>3 DEF EthernetInv, OneInv, PendingInv
  <1>5. CASE HostStart(E)
    <2>1. tcpSocketFd = "live" /\ toDev'[E] = <<>> /\ toHost'[E] = <<>>
      BY <1>1, <1>5 DEF HostStart, Connected
    <2>2. PICK step \in {"GDT", "LGN"} : Move(E, step, 1)
      BY <1>5 DEF HostStart
    <2>3. step \in Steps
      BY DEF Steps
    <2>4. hostStep'[E] = step /\ hostNum'[E] = 1
      BY <1>1, <2>2, <2>3, HostMoves
    <2>5. ~hostEnc'[E]
      BY <1>1, <1>2, <1>5 DEF HostStart
    <2>6. ConnInv'
      BY <1>3, <2>1 DEF ConnInv
    <2>7. FullInv'
      <3>1. \A i \in 1..Len(<<>>) : FALSE
        OBVIOUS
      <3>2. QED
        BY <2>1, <2>4, <2>5, <3>1 DEF FullInv
    <2>8. QED
      BY <1>4, <2>6, <2>7 DEF EthernetInv
  <1>6. CASE HostSend(E)
    <2> DEFINE m == sentence(E)
    <2>1. tcpSocketFd = "live" /\ UNCHANGED <<toHost, hostVars>>
      BY <1>1, <1>6 DEF HostSend, Connected
    <2>2. toDev'[E] = Append(toDev[E], m) /\ toDev[E] \in Seq(Requests)
      BY <1>1, <1>2, <1>6 DEF HostSend
    <2>3. /\ Len(toDev'[E]) = Len(toDev[E]) + 1 /\ toDev'[E][Len(toDev[E]) + 1] = m
          /\ \A i \in 1..Len(toDev[E]) : toDev'[E][i] = toDev[E][i]
      BY <2>2
    <2>4. ConnInv'
      BY <1>3, <2>1 DEF ConnInv
    <2>5. FullInv'
      <3>1. hostStep[E] \in {"GDT", "LGN"} /\ hostNum[E] = 1 /\ ~hostEnc[E] => Opening(m)
        BY DEF Opening, sentence
      <3>2. hostStep[E] # "off"
        BY <1>6 DEF HostSend
      <3>3. \A i \in 1..(Len(toDev[E]) + 1) : i \in 1..Len(toDev[E]) \/ i = Len(toDev[E]) + 1
        BY <2>2
      <3> HIDE DEF m
      <3>4. ASSUME FullInv, Len(OutgoingBuffer[E]) = BufSize
            PROVE  \A i \in 1..Len(toDev'[E]) : Opening(toDev'[E][i])
        BY <2>3, <3>1, <3>2, <3>3, <3>4 DEF FullInv
      <3>5. \A x : Opening(x)' <=> Opening(x)
        BY <2>1 DEF Opening, hostVars
      <3>6. QED
        BY <1>3, <2>1, <3>4, <3>5 DEF EthernetInv, FullInv, Opening, hostVars
    <2>6. QED
      BY <1>4, <2>4, <2>5 DEF EthernetInv
  <1>7. CASE HostReceive(E)
    <2>1. toHost[E] # <<>>
      BY <1>7 DEF HostReceive
    <2>2. ConnInv'
      BY <1>3, <2>1 DEF EthernetInv, ConnInv
    <2>3. FullInv'
      BY <1>3, <2>1 DEF EthernetInv, FullInv
    <2>4. QED
      BY <1>4, <2>2, <2>3 DEF EthernetInv
  <1>8. CASE HostGiveUp(E)
    BY <1>1, <1>8 DEF HostGiveUp
  <1>9. QED
    BY <1>5, <1>6, <1>7, <1>8 DEF Host

LEMMA AnyHostStep ==
  ASSUME TypeInv, TypeInv', "missing" \notin Logins, HostsInv, NEW c \in Channels, Host(c)
  PROVE  HostsInv'
  <1>1. ChannelInv(c)'
    BY HostStep DEF HostsInv, EthernetInv
  <1>2. ASSUME NEW d \in Channels, d # c
        PROVE  Elsewhere(d) /\ ChannelInv(d)'
    BY <1>2, OtherHost, ElsewhereStep DEF HostsInv
  <1>3. UNCHANGED <<OutgoingBuffer, tcpSocketFd>>
    BY DEF Host, HostStart, HostSend, HostReceive, HostGiveUp, devVars, tcpVars
  <1>4. EthernetInv'
    <2>1. CASE c = E
      BY <2>1, EthernetHostStep DEF HostsInv
    <2>2. CASE c # E
      BY <1>2, <1>3, <2>2, TwoChannels, EthernetElsewhere DEF HostsInv
    <2>3. QED
      BY <2>1, <2>2
  <1>5. QED
    BY <1>1, <1>2, <1>3, <1>4 DEF HostsInv, QuietInv

-----------------------------------------------------------------------------
(* The transfer, with every host.                                            *)

LEMMA InitHosts == Init => HostsInv
  <1> SUFFICES ASSUME Init PROVE HostsInv
    OBVIOUS
  <1>1. \A c \in Channels : /\ OutgoingBuffer[c] = <<>> /\ toDev[c] = <<>> /\ toHost[c] = <<>>
                            /\ hostStep[c] = "off"
                            /\ hostAt(c).step = "off" /\ hostAt(c).got = <<>>
    BY DEF Init, hostAt
  <1>2. session.ActiveChannel = "NONE" /\ ~session.UserLoggedOn
    BY DEF Init, InitSession
  <1>3. \A i \in 1..Len(<<>>) : FALSE
    OBVIOUS
  <1>4. ASSUME NEW c \in Channels
        PROVE  ChannelInv(c)
    <2>1. c # "NONE"
      BY DEF Channels
    <2> DEFINE h == hostAt(c)
    <2>2. h.step = "off" /\ h.got = <<>>
      BY <1>1
    <2> HIDE DEF h
    <2>3. KeptInv(c, session, LastSentSentence) /\ RequestsInv(<<>>, h) /\ GotInv(h)
      BY <1>2, <1>3, <2>1, <2>2 DEF KeptInv, Active, RequestsInv, GotInv
    <2>4. \A host : LoginInv(c, session, LastSentSentence, <<>>, host, h)
      BY <2>2 DEF LoginInv
    <2>5. TransferInv(c, session, LastSentSentence, <<>>, Pipeline(c), h)
      BY <1>2, <2>2, <2>3, <2>4 DEF TransferInv
    <2>6. QED
      BY <1>1, <2>5 DEF ChannelInv, h
  <1>5. EthernetInv
    <2>1. ConnInv
      BY <1>1, TwoChannels DEF ConnInv
    <2>2. FullInv
      <3>1. Len(OutgoingBuffer[E]) = 0 /\ BufSize # 0
        BY <1>1, TwoChannels, SessionAssumption
      <3>2. QED
        BY <3>1 DEF FullInv
    <2>3. OneInv /\ PendingInv
      BY <1>1, <1>3, TwoChannels DEF OneInv, PendingInv
    <2>4. QED
      BY <2>1, <2>2, <2>3 DEF EthernetInv
  <1>6. QED
    BY <1>1, <1>4, <1>5, TwoChannels DEF HostsInv, QuietInv

LEMMA NextHosts ==
  ASSUME "missing" \notin Logins, TypeInv, TypeInv', HostsInv, [Next]_vars
  PROVE  HostsInv'
  <1>1. CASE MainLoop
    BY <1>1, ExchangesStep, AcceptStep, QuietStep DEF MainLoop
  <1>2. CASE KeepAlive
    BY <1>2, KeepAliveStep
  <1>3. CASE Lose \/ Garble
    BY <1>3, FaultStep
  <1>4. ASSUME NEW c \in Hosts, Host(c)
        PROVE  HostsInv'
    <2>1. c \in Channels
      BY SessionAssumption
    <2>2. QED
      BY <1>4, <2>1, AnyHostStep
  <1>5. CASE HostConnect \/ UNCHANGED vars
    BY <1>5, QuietStep
  <1>6. CASE HostDisconnect
    BY <1>6, DisconnectStep
  <1>7. QED
    BY <1>1, <1>2, <1>3, <1>4, <1>5, <1>6 DEF Next, Controller

LEMMA HostSafe ==
  ASSUME TypeInv, NEW c \in Channels, ChannelInv(c)
  PROVE  PartsInOrder(c) /\ PositionInStep(c)
  <1> DEFINE h == hostAt(c)
  <1>1. h.got = got[c] /\ h.step = hostStep[c]
    BY DEF hostAt
  <1>2. TransferInv(c, session, LastSentSentence, toDev[c], Pipeline(c), h)
    BY DEF ChannelInv
  <1>3. session \in Sessions /\ h \in HostStates
    BY ChannelTypes
  <1> HIDE DEF h
  <1>4. PartsInOrder(c)
    BY <1>1, <1>2 DEF TransferInv, GotInv, PartsInOrder
  <1>5. PositionInStep(c)
    <2> SUFFICES ASSUME hostStep[c] = "CFI", Synced(c, session)
                 PROVE  session.CrntFileTransferPos - Len(got[c]) \in {0, 1}
      BY DEF PositionInStep, Synced, Active
    <2>1. FileInv(c, session, LastSentSentence, toDev[c], Pipeline(c), h) /\ h.step = "CFI"
      BY <1>1, <1>2 DEF TransferInv
    <2>2. /\ session.ExpectedSentenceNum \in Nat /\ session.CrntFileTransferPos \in Nat
          /\ h.num \in Nat /\ Len(got[c]) \in Nat
      BY <1>1, <1>3, ProtocolAssumption DEF Sessions, HostStates
    <2>3. session.CrntFileTransferPos \in {Len(got[c]), Len(got[c]) + 1}
      BY <1>1, <2>1, <2>2 DEF FileInv, Synced
    <2>4. QED
      BY <2>2, <2>3
  <1>6. QED
    BY <1>4, <1>5

\* The invariant the transfer rests on, for the hosts on both channels: a serial
\* line that loses, repeats and garbles, connections that come and go with
\* responses still in the output buffer, keep-alive bytes that fill it, and two
\* hosts that break into each other's session. Without a password a session is
\* taken over with the response of an earlier one still stored: hence the
\* hypothesis.
THEOREM HostsInStep ==
  ASSUME "missing" \notin Logins
  PROVE  Spec => [](TypeInv /\ HostsInv)
  <1>1. Init => TypeInv /\ HostsInv
    BY InitTyped, InitHosts
  <1>2. TypeInv /\ HostsInv /\ [Next]_vars => TypeInv' /\ HostsInv'
    BY NextTyped, NextHosts
  <1>3. QED
    BY <1>1, <1>2, PTL DEF Spec

\* Every host gets the parts of its file in order, none twice and none left
\* out, whatever the line, the connections and the other host do.
THEOREM FileIntactHolds ==
  ASSUME "missing" \notin Logins
  PROVE  Spec => []FileIntact
  <1>1. TypeInv /\ HostsInv => FileIntact
    BY SessionAssumption, HostSafe DEF HostsInv, FileIntact
  <1>2. QED
    BY <1>1, HostsInStep, PTL

\* And the controller's position in the file is the waiting host's own or one
\* part ahead.
THEOREM TransferInStepHolds ==
  ASSUME "missing" \notin Logins
  PROVE  Spec => []TransferInStep
  <1>1. TypeInv /\ HostsInv => TransferInStep
    BY SessionAssumption, HostSafe DEF HostsInv, TransferInStep
  <1>2. QED
    BY <1>1, HostsInStep, PTL

-----------------------------------------------------------------------------
(* CommSession implements FileTransfer.                                      *)

LEMMA MovesBar ==
  ASSUME TypeInv, NEW c \in Channels, NEW step, NEW n, Move(c, step, n)
  PROVE  /\ fetchingBar' = [fetchingBar EXCEPT ![c] = step \in {"GFI", "CFI"}]
         /\ (step \in {"GFI", "CFI"} <=> fetchingBar[c]) => UNCHANGED fetchingBar
  <1>1. hostStep' = [hostStep EXCEPT ![c] = step] /\ hostStep \in [Channels -> Steps]
    BY DEF Move, TypeInv, HostsTyped
  <1>2. \A d \in Channels : hostStep'[d] = IF d = c THEN step ELSE hostStep[d]
    BY <1>1
  <1>3. fetchingBar' = [d \in Channels |-> hostStep'[d] \in {"GFI", "CFI"}]
    BY DEF fetchingBar
  <1>4. fetchingBar' = [fetchingBar EXCEPT ![c] = step \in {"GFI", "CFI"}]
    BY <1>2, <1>3 DEF fetchingBar
  <1>5. ASSUME step \in {"GFI", "CFI"} <=> fetchingBar[c]
        PROVE  UNCHANGED fetchingBar
    <2>1. \A d \in Channels : hostStep'[d] \in {"GFI", "CFI"} <=> hostStep[d] \in {"GFI", "CFI"}
      BY <1>2, <1>5 DEF fetchingBar
    <2>2. QED
      BY <1>3, <2>1 DEF fetchingBar
  <1>6. QED
    BY <1>4, <1>5

\* A host that stops without a part gives the transfer up, if it has one.
LEMMA FetchStopped ==
  ASSUME TypeInv, NEW c \in Channels, Move(c, "off", 0), UNCHANGED got
  PROVE  Transfer!GiveUp(c) \/ UNCHANGED <<got, fetchingBar>>
  <1>1. /\ fetchingBar' = [fetchingBar EXCEPT ![c] = "off" \in {"GFI", "CFI"}]
        /\ ("off" \in {"GFI", "CFI"} <=> fetchingBar[c]) => UNCHANGED fetchingBar
    BY MovesBar
  <1>2. ("off" \in {"GFI", "CFI"}) = FALSE
    OBVIOUS
  <1>3. fetchingBar' = [fetchingBar EXCEPT ![c] = FALSE]
    BY ONLY <1>1, <1>2
  <1>4. ~fetchingBar[c] => UNCHANGED fetchingBar
    BY ONLY <1>1, <1>2
  <1>5. QED
    BY <1>3, <1>4 DEF Transfer!GiveUp

LEMMA FetchReceived ==
  ASSUME TypeInv, NEW c \in Channels, ChannelInv(c), HostReceive(c)
  PROVE  Transfer!Request(c) \/ Transfer!Receive(c) \/ Transfer!GiveUp(c) \/ UNCHANGED <<got, fetchingBar>>
  <1> DEFINE x == Head(toHost[c])
             h == hostAt(c)
             next == hostNum[c] + 1
             k == Len(got[c])
  <1>1. fetchingBar[c] <=> hostStep[c] \in {"GFI", "CFI"}
    BY DEF fetchingBar
  <1>2. h.step = hostStep[c] /\ h.num = hostNum[c] /\ h.got = got[c]
    BY DEF hostAt
  <1>3. /\ h \in HostStates /\ Pipeline(c) \in Seq(Responses) /\ session \in Sessions /\ toDev[c] \in Seq(Requests)
        /\ toHost[c] \in Seq(Responses) /\ OutgoingBuffer[c] \in Seq(Bytes) /\ toHost[c] # <<>>
    BY ChannelTypes DEF HostReceive
  <1>4. TransferInv(c, session, LastSentSentence, toDev[c], Pipeline(c), h)
    BY DEF ChannelInv
  <1>5. Pipeline(c) # <<>> /\ Head(Pipeline(c)) = x
    BY <1>3, PipelineTaken DEF Pipeline
  <1>6. got \in [Channels -> Seq(0..NChunks)] /\ k \in Nat /\ NChunks \in Nat
    BY ProtocolAssumption DEF TypeInv, HostsTyped
  <1> HIDE DEF x, h
  <1>7. CASE hostStep[c] = "GDT" /\ Move(c, "LGN", next) /\ UNCHANGED got
    BY <1>1, <1>7, MovesBar
  <1>8. CASE /\ hostStep[c] = "LGN"
             /\ \E step \in Commands : Move(c, step, next)
             /\ UNCHANGED got
    <2>1. PICK step \in Commands : Move(c, step, next)
      BY <1>8
    <2>2. /\ fetchingBar' = [fetchingBar EXCEPT ![c] = step \in {"GFI", "CFI"}]
          /\ (step \in {"GFI", "CFI"} <=> fetchingBar[c]) => UNCHANGED fetchingBar
      BY <2>1, MovesBar
    <2>3. got[c] = <<>> /\ ~fetchingBar[c]
      BY <1>1, <1>2, <1>4, <1>8 DEF TransferInv, GotInv
    <2>4. CASE step = "GFI"
      <3>1. fetchingBar' = [fetchingBar EXCEPT ![c] = TRUE]
        BY <2>2, <2>4
      <3>2. QED
        BY <1>8, <2>3, <3>1 DEF Transfer!Request
    <2>5. CASE step # "GFI"
      <3>1. step \notin {"GFI", "CFI"}
        BY <2>5, SessionAssumption
      <3>2. QED
        BY <1>8, <2>2, <2>3, <3>1
    <2>6. QED
      BY <2>4, <2>5
  <1>9. ASSUME IsAnswer(c, x), x.kind = "FIL", NEW step, NEW n, Move(c, step, n),
               \/ step = "CFI" /\ x.chunk \in 1..(NChunks - 1)
               \/ step = "off" /\ x.chunk \in {0, NChunks},
               got' = [got EXCEPT ![c] = Append(@, x.chunk)]
        PROVE  Transfer!Receive(c)
    <2>1. hostStep[c] \in {"GFI", "CFI"} /\ x.num = h.num
      BY <1>2, <1>9 DEF IsAnswer, Awaited, Refusals
    <2>2. x.chunk = Len(h.got) + 1
      <3>1. h.step \in {"GFI", "CFI"}
        BY ONLY <1>2, <2>1
      <3>2. PartInv(x, h) /\ GotInv(h)
        BY ONLY <1>3, <1>4, <1>5, <3>1, HeadPart
      <3>3. h \in HostStates /\ x.kind = "FIL" /\ x.num = h.num
        BY ONLY <1>3, <1>9, <2>1
      <3>4. QED
        BY ONLY <3>2, <3>3, PartReceived
    <2>3. x.chunk = k + 1
      BY <1>2, <2>2
    <2>4. got' = [got EXCEPT ![c] = Append(@, Len(@) + 1)]
      BY <1>6, <1>9, <2>3
    <2>5. k < NChunks /\ (step \in {"GFI", "CFI"} <=> k + 1 < NChunks)
      <3> HIDE DEF k
      <3>1. QED
        BY <1>6, <1>9, <2>3
    <2>6. fetchingBar' = [fetchingBar EXCEPT ![c] = step \in {"GFI", "CFI"}]
      BY <1>9, MovesBar
    <2>7. fetchingBar' = [fetchingBar EXCEPT ![c] = k + 1 < NChunks]
      <3>1. (step \in {"GFI", "CFI"}) = (k + 1 < NChunks)
        BY <2>5
      <3>2. QED
        BY <2>6, <3>1
    <2>8. QED
      BY <1>1, <2>1, <2>4, <2>5, <2>7 DEF Transfer!Receive
  <1>10. CASE Move(c, "off", 0) /\ UNCHANGED got
    BY <1>10, FetchStopped
  <1>11. CASE UNCHANGED hostVars
    BY <1>11 DEF hostVars, fetchingBar
  <1>12. QED
    BY <1>7, <1>8, <1>9, <1>10, <1>11 DEF HostReceive, x

LEMMA FetchHost ==
  ASSUME TypeInv, "missing" \notin Logins, NEW c \in Channels, ChannelInv(c), Host(c)
  PROVE  Transfer!Next \/ UNCHANGED <<got, fetchingBar>>
  <1>1. CASE HostStart(c)
    <2>1. PICK step \in {"GDT", "LGN"} : Move(c, step, 1)
      BY <1>1 DEF HostStart
    <2>2. ~fetchingBar[c] /\ got' = [got EXCEPT ![c] = <<>>]
      BY <1>1 DEF HostStart, fetchingBar
    <2>3. UNCHANGED fetchingBar
      BY <2>1, <2>2, MovesBar
    <2>4. Transfer!Begin(c)
      BY <2>2, <2>3 DEF Transfer!Begin
    <2>5. QED
      BY <2>4 DEF Transfer!Next
  <1>2. CASE HostSend(c)
    BY <1>2 DEF HostSend, hostVars, fetchingBar
  <1>3. CASE HostReceive(c)
    BY <1>3, FetchReceived DEF Transfer!Next
  <1>4. CASE HostGiveUp(c)
    BY <1>4, FetchStopped DEF HostGiveUp, Transfer!Next
  <1>5. QED
    BY <1>1, <1>2, <1>3, <1>4 DEF Host

LEMMA FetchStep ==
  ASSUME "missing" \notin Logins, TypeInv, HostsInv, [Next]_vars
  PROVE  [Transfer!Next]_(Transfer!vars)
  <1> SUFFICES Transfer!Next \/ UNCHANGED <<got, fetchingBar>>
    BY DEF Transfer!vars
  <1>1. ASSUME UNCHANGED hostVars
        PROVE  UNCHANGED <<got, fetchingBar>>
    BY <1>1 DEF hostVars, fetchingBar
  <1>2. CASE Controller \/ Lose \/ Garble \/ HostConnect \/ UNCHANGED vars
    <2>1. UNCHANGED hostVars
      BY <1>2 DEF Controller, MainLoop, ExchangeUARTData, ReadUART, IdleUART, ExchangeTcpData, ReadTcp, IdleTcp,
                  AcceptTcp, NoConnection, KeepAlive, Lose, Garble, HostConnect, vars
    <2>2. QED
      BY <1>1, <2>1
  <1>3. ASSUME NEW c \in Hosts, Host(c)
        PROVE  Transfer!Next \/ UNCHANGED <<got, fetchingBar>>
    BY <1>3, SessionAssumption, FetchHost DEF HostsInv
  <1>4. CASE HostDisconnect
    <2>1. Move(E, "off", 0) /\ UNCHANGED got
      BY <1>4 DEF HostDisconnect, E
    <2>2. QED
      BY <2>1, TwoChannels, FetchStopped DEF Transfer!Next
  <1>5. QED
    BY <1>2, <1>3, <1>4 DEF Next

\* CommSession implements FileTransfer: for every number of parts and whatever
\* the line, the connections and the other host do, a host takes only the next
\* part for one and the end of the file only for the end.
THEOREM FetchRefinement ==
  ASSUME "missing" \notin Logins
  PROVE  Spec => FetchSpec
  <1>1. Init => Transfer!Init
    <2> SUFFICES ASSUME Init PROVE Transfer!Init
      OBVIOUS
    <2>1. \A c \in Channels : (hostStep[c] \in {"GFI", "CFI"}) = FALSE
      BY DEF Init
    <2>2. fetchingBar = [c \in Channels |-> FALSE]
      BY <2>1 DEF fetchingBar
    <2>3. QED
      BY <2>2 DEF Init, Transfer!Init
  <1>2. TypeInv /\ HostsInv /\ [Next]_vars => [Transfer!Next]_(Transfer!vars)
    BY FetchStep
  <1>3. QED
    BY <1>1, <1>2, HostsInStep, PTL DEF Spec, FetchSpec, Transfer!Spec
=============================================================================
