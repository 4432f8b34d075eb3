----------------------------- MODULE CommSession -----------------------------
(***************************************************************************)
(* The controller's host connections: the communication part of the main   *)
(* loop (src/main.cpp) around the sentence protocol (CommProt), the serial *)
(* line and the TCP connection, and the host programs at their other ends. *)
(*                                                                         *)
(* The main loop is one thread: an exchange with a channel - read one      *)
(* sentence, process it, write what fits of the output buffer - is one     *)
(* step. The host programs are not part of the repository. They are        *)
(* modelled from what the protocol expects of them: numbered requests, one *)
(* at a time, repeated until the response with the same number arrives.    *)
(***************************************************************************)
EXTENDS CommProt

CONSTANTS
  Hosts,       \* the channels that have a host
  Logins,      \* what the hosts send as password
  Encryption,  \* subset of {"plain", "key"}: what the hosts ask for with GDT
  Commands,    \* subset of {"GFI", "SEP"}: what they do when logged on
  LineFaults,  \* subset of {"lose", "garble"}: what the serial line does
  BufSize,     \* COMM_BUFFER_SIZE, in sentences
  WriteSize,   \* MAX_COMM_SENTENCE_LENGTH - 1, in sentences
  LengthMod,   \* the lengths are unsigned integers modulo this
  LinkCap      \* bound: sentences on the way in one direction

ASSUME SessionAssumption ==
  /\ Hosts \subseteq Channels
  /\ Logins \subseteq Passwords /\ Encryption \subseteq {"plain", "key"}
  /\ Commands \subseteq {"GFI", "SEP"} /\ LineFaults \subseteq {"lose", "garble"}
  /\ WriteSize \in 1..BufSize /\ BufSize \in Nat \ {0} /\ LinkCap \in Nat \ {0}
  /\ LengthMod \in Nat /\ LengthMod > BufSize + 1

\* Two calls of getOutputBuffer empty a full buffer: 2 * 819 > 1536. With a
\* larger buffer responses to one Ethernet host would be left for the next.
ASSUME BufferAssumption == BufSize \in 2..(2 * WriteSize)

VARIABLES
  session,               \* the globals of CommProt
  LastSentSentence,      \* the stored response, if there is one
  OutgoingBuffer,        \* responses and keep-alive bytes to be written, per channel
  IncommingBufferLength, \* per channel
  turn,                  \* which channel the main loop comes to next
  tcpSocketFd,           \* "none", "live", or "dead": the host has closed it
  backlog,               \* a connection waits to be accepted
  toDev, toHost,         \* sentences and responses on the way, per channel
  hostStep, hostArg, hostNum, hostEnc, \* the request each host waits with, "off" if none
  got                    \* the parts of the file each host has received

devVars  == <<session, LastSentSentence, OutgoingBuffer, IncommingBufferLength>>
tcpVars  == <<tcpSocketFd, backlog>>
hostVars == <<hostStep, hostArg, hostNum, hostEnc, got>>
vars == <<turn, devVars, tcpVars, toDev, toHost, hostVars>>

\* The keep-alive byte.
Space == [kind |-> "space", num |-> 0, chunk |-> 0, enc |-> FALSE]

Init ==
  /\ session = InitSession
  /\ LastSentSentence = <<>>
  /\ OutgoingBuffer = [c \in Channels |-> <<>>]
  /\ IncommingBufferLength = [c \in Channels |-> 0]
  /\ turn = "tcp"
  /\ tcpSocketFd = "none"
  /\ backlog = FALSE
  /\ toDev = [c \in Channels |-> <<>>]
  /\ toHost = [c \in Channels |-> <<>>]
  /\ hostStep = [c \in Channels |-> "off"]
  /\ hostArg = [c \in Channels |-> "none"]
  /\ hostNum = [c \in Channels |-> 0]
  /\ hostEnc = [c \in Channels |-> FALSE]
  /\ got = [c \in Channels |-> <<>>]

-----------------------------------------------------------------------------
(* The controller.                                                           *)

\* CommProt_appendResponse, CommProt_resendLastResponse: a response that does
\* not fit is dropped, and then not stored either.
Fits(buffer, reply) == Len(buffer) + Len(reply) <= BufSize
Appended(buffer, reply) == IF Fits(buffer, reply) THEN buffer \o reply ELSE buffer

\* Seeded fault: responses are stored one after the other.
Stored_All(buffer, reply) == LastSentSentence \o reply

Stored(buffer, reply) == IF reply # <<>> /\ Fits(buffer, reply) THEN reply ELSE LastSentSentence

\* What getOutputBuffer takes in one call, and what it leaves.
Taken(buffer) == SubSeq(buffer, 1, IF Len(buffer) < WriteSize THEN Len(buffer) ELSE WriteSize)
Left(buffer)  == SubSeq(buffer, Len(Taken(buffer)) + 1, Len(buffer))

\* Hosts skip what is not between the start and the end symbol.
Readable(data) ==
  LET upTo[i \in 0..Len(data)] ==
        IF i = 0 THEN <<>>
        ELSE IF data[i].kind = Space.kind THEN upTo[i - 1] ELSE Append(upTo[i - 1], data[i])
  IN  upTo[Len(data)]

\* CommProt_processStream appends the sentence, one unit long, unless the
\* length overflows, and processes and removes the first one in the buffer.
Length(c) == IF (IncommingBufferLength[c] + 1) % LengthMod > BufSize
             THEN 1 ELSE (IncommingBufferLength[c] + 1) % LengthMod

\* Processing m on channel c changes the session; buffer is what is then to be
\* written. After a wrap-around the sentence lies outside of the buffer and is
\* not found.
Process(c, m, buffer) ==
  IF Length(c) = 0
  THEN /\ IncommingBufferLength' = [IncommingBufferLength EXCEPT ![c] = 0]
       /\ buffer = OutgoingBuffer[c]
       /\ UNCHANGED <<session, LastSentSentence>>
  ELSE \E r \in ProcessSentence(session, LastSentSentence, c, m) :
         LET kept == IF r.emptied THEN <<>> ELSE OutgoingBuffer[c] IN
         /\ session' = r.session
         /\ buffer = Appended(kept, r.reply)
         /\ LastSentSentence' = Stored(kept, r.reply)
         /\ IncommingBufferLength' =
              [IncommingBufferLength EXCEPT
                 ![c] = ((IF r.emptied THEN 0 ELSE Length(c)) + LengthMod - 1) % LengthMod]

\* The buffers processing m can leave: the last one with a response or without.
BuffersAfter(c, m) ==
  {OutgoingBuffer[c]} \cup
  {Appended(IF r.emptied THEN <<>> ELSE OutgoingBuffer[c], r.reply) :
     r \in ProcessSentence(session, LastSentSentence, c, m)}

\* The serial part of a turn of the main loop; a sentence may be on its way
\* still.
ReadUART ==
  LET c == "SERIAL_A" IN
  /\ turn = "uart" /\ turn' = "tcp"
  /\ toDev[c] # <<>>
  /\ Len(toHost[c]) < LinkCap
  /\ \E buffer \in BuffersAfter(c, Head(toDev[c])) :
       /\ Process(c, Head(toDev[c]), buffer)
       /\ OutgoingBuffer' = [OutgoingBuffer EXCEPT ![c] = Left(buffer)]
       /\ toHost' = [toHost EXCEPT ![c] = @ \o Readable(Taken(buffer))]
  /\ toDev' = [toDev EXCEPT ![c] = Tail(@)]
  /\ UNCHANGED <<tcpVars, hostVars>>

IdleUART ==
  LET c == "SERIAL_A" IN
  /\ turn = "uart" /\ turn' = "tcp"
  /\ Len(toHost[c]) < LinkCap
  /\ OutgoingBuffer' = [OutgoingBuffer EXCEPT ![c] = Left(@)]
  /\ toHost' = [toHost EXCEPT ![c] = @ \o Readable(Taken(OutgoingBuffer[c]))]
  /\ UNCHANGED <<session, LastSentSentence, IncommingBufferLength, tcpVars, toDev, hostVars>>

ExchangeUARTData == ReadUART \/ IdleUART

\* What is written to the socket. A connection the host has closed may refuse
\* it with errno 104, and only then is the socket closed.
TcpWrite(data) ==
  \/ /\ tcpSocketFd = "live" \/ data = <<>>
     /\ toHost' = [toHost EXCEPT !["ETHERNET"] = @ \o Readable(data)]
     /\ UNCHANGED tcpSocketFd
  \/ /\ tcpSocketFd = "dead" /\ data # <<>>
     /\ tcpSocketFd' \in {"dead", "none"}
     /\ UNCHANGED toHost

\* One recv may return several sentences: the first is processed, the others
\* are lost.
ReadTcp ==
  LET c == "ETHERNET" IN
  /\ turn = "tcp" /\ turn' = "uart"
  /\ tcpSocketFd # "none"
  /\ Len(toHost[c]) < LinkCap
  /\ toDev[c] # <<>>
  /\ \E buffer \in BuffersAfter(c, Head(toDev[c])), n \in 1..Len(toDev[c]) :
       /\ Process(c, Head(toDev[c]), buffer)
       /\ OutgoingBuffer' = [OutgoingBuffer EXCEPT ![c] = Left(buffer)]
       /\ TcpWrite(Taken(buffer))
       /\ toDev' = [toDev EXCEPT ![c] = IF tcpSocketFd' = "none" THEN <<>>
                                        ELSE SubSeq(@, n + 1, Len(@))]
  /\ UNCHANGED <<backlog, hostVars>>

IdleTcp ==
  LET c == "ETHERNET" IN
  /\ turn = "tcp" /\ turn' = "uart"
  /\ tcpSocketFd # "none"
  /\ Len(toHost[c]) < LinkCap
  /\ OutgoingBuffer' = [OutgoingBuffer EXCEPT ![c] = Left(@)]
  /\ TcpWrite(Taken(OutgoingBuffer[c]))
  /\ toDev' = [toDev EXCEPT ![c] = IF tcpSocketFd' = "none" THEN <<>> ELSE @]
  /\ UNCHANGED <<session, LastSentSentence, IncommingBufferLength, backlog, hostVars>>

ExchangeTcpData == ReadTcp \/ IdleTcp

\* Without a socket the loop accepts a waiting connection, and calls
\* CommProt_resetChannel for the serial channel.
AcceptTcp ==
  /\ turn = "tcp" /\ turn' = "uart"
  /\ tcpSocketFd = "none"
  /\ backlog
  /\ tcpSocketFd' = "live"
  /\ backlog' = FALSE
  /\ OutgoingBuffer' = [OutgoingBuffer EXCEPT !["SERIAL_A"] = <<>>]
  /\ IncommingBufferLength' = [IncommingBufferLength EXCEPT !["SERIAL_A"] = 0]
  /\ IF session.ActiveChannel = "SERIAL_A"
     THEN session' = Cleared(session) /\ LastSentSentence' = <<>>
     ELSE UNCHANGED <<session, LastSentSentence>>
  /\ UNCHANGED <<toDev, toHost, hostVars>>

NoConnection ==
  /\ turn = "tcp" /\ turn' = "uart"
  /\ tcpSocketFd = "none" /\ ~backlog
  /\ UNCHANGED <<devVars, tcpVars, toDev, toHost, hostVars>>

\* Once a second when nothing has come for 3 s, before the TCP part of a turn.
\* The loop turns many times a second: with a socket it has by then read and
\* written what there was.
KeepAlive ==
  /\ turn = "tcp"
  /\ session.ActiveChannel = "ETHERNET"
  /\ tcpSocketFd # "none" => toDev["ETHERNET"] = <<>> /\ OutgoingBuffer["ETHERNET"] = <<>>
  /\ Len(OutgoingBuffer["ETHERNET"]) < BufSize
  /\ OutgoingBuffer' = [OutgoingBuffer EXCEPT !["ETHERNET"] = Append(@, Space)]
  /\ UNCHANGED <<turn, session, LastSentSentence, IncommingBufferLength, tcpVars, toDev, toHost, hostVars>>

MainLoop == ExchangeUARTData \/ ExchangeTcpData \/ AcceptTcp \/ NoConnection

Controller == MainLoop \/ KeepAlive

-----------------------------------------------------------------------------
(* The serial line loses sentences and responses; it garbles a sentence, so  *)
(* that its number may be another and its checksum is wrong. What becomes of *)
(* a sentence is settled when the main loop would read it.                   *)

Lose ==
  /\ "lose" \in LineFaults
  /\ LET c == "SERIAL_A" IN
     \/ /\ turn = "uart" /\ toDev[c] # <<>>
        /\ toDev' = [toDev EXCEPT ![c] = Tail(@)]
        /\ UNCHANGED toHost
     \/ /\ toHost[c] # <<>>
        /\ toHost' = [toHost EXCEPT ![c] = Tail(@)]
        /\ UNCHANGED toDev
  /\ UNCHANGED <<turn, devVars, tcpVars, hostVars>>

Garble ==
  /\ "garble" \in LineFaults
  /\ LET c == "SERIAL_A" IN
     /\ turn = "uart" /\ toDev[c] # <<>>
     /\ Head(toDev[c]).ok
     /\ \E n \in 0..MaxNum :
          toDev' = [toDev EXCEPT ![c] = <<[Head(toDev[c]) EXCEPT !.num = n, !.ok = FALSE]>> \o Tail(@)]
  /\ UNCHANGED <<turn, devVars, tcpVars, toHost, hostVars>>

-----------------------------------------------------------------------------
(* The host on channel c.                                                    *)

Connected(c) == c = "ETHERNET" => tcpSocketFd = "live"

sentence(c) ==
  [tag |-> hostStep[c], arg |-> hostArg[c], num |-> hostNum[c], enc |-> hostEnc[c], ok |-> TRUE]

\* The host turns to request number n.
Move(c, step, n) ==
  /\ n <= MaxNum
  /\ hostStep' = [hostStep EXCEPT ![c] = step]
  /\ hostNum' = [hostNum EXCEPT ![c] = n]
  /\ \E arg \in CASE step = "GDT" -> Encryption [] step = "LGN" -> Logins [] OTHER -> {"none"} :
       hostArg' = [hostArg EXCEPT ![c] = arg]

\* A host begins on a quiet line: nothing of an earlier session of its own is
\* on its way. It asks for the device type, or logs in right away.
HostStart(c) ==
  /\ hostStep[c] = "off"
  /\ Connected(c)
  /\ toDev[c] = <<>> /\ toHost[c] = <<>>
  /\ \E step \in {"GDT", "LGN"} : Move(c, step, 1)
  /\ hostEnc' = [hostEnc EXCEPT ![c] = FALSE]
  /\ got' = [got EXCEPT ![c] = <<>>]
  /\ UNCHANGED <<turn, devVars, tcpVars, toDev, toHost>>

\* Sends its request, for the first time or again.
HostSend(c) ==
  /\ hostStep[c] # "off"
  /\ Connected(c)
  /\ Len(toDev[c]) < LinkCap
  /\ toDev' = [toDev EXCEPT ![c] = Append(@, sentence(c))]
  /\ UNCHANGED <<turn, devVars, tcpVars, toHost, hostVars>>

\* The responses a host waits for; the refusals make it give up.
Refusals == {"ALC", "NTL", "LGF"}
Awaited(step) ==
  CASE step = "GDT" -> {"DTY", "DTY with key"}
    [] step \in {"LGN", "SEP"} -> {"EOK"} \cup Refusals
    [] step \in {"GFI", "CFI"} -> {"FIL"} \cup Refusals
    [] OTHER -> {}

\* The answer to the outstanding request, in a form the host can read.
IsAnswer(c, r) == r.num = hostNum[c] /\ r.enc = hostEnc[c] /\ r.kind \in Awaited(hostStep[c])

HostReceive(c) ==
  /\ toHost[c] # <<>>
  /\ toHost' = [toHost EXCEPT ![c] = Tail(@)]
  /\ LET r == Head(toHost[c])
         next == hostNum[c] + 1
     IN
     \/ /\ IsAnswer(c, r) /\ hostStep[c] = "GDT"
        /\ Move(c, "LGN", next)
        /\ hostEnc' = [hostEnc EXCEPT ![c] = r.kind = "DTY with key"]
        /\ UNCHANGED <<got, toDev>>
     \/ /\ IsAnswer(c, r) /\ r.kind = "EOK" /\ hostStep[c] = "LGN"
        /\ \E step \in Commands : Move(c, step, next)
        /\ UNCHANGED <<hostEnc, got, toDev>>
     \/ /\ IsAnswer(c, r) /\ r.kind = "FIL" /\ r.chunk \in 1..(NChunks - 1)
        /\ Move(c, "CFI", next)
        /\ got' = [got EXCEPT ![c] = Append(@, r.chunk)]
        /\ UNCHANGED <<hostEnc, toDev>>
     \/ /\ IsAnswer(c, r) /\ r.kind = "FIL" /\ r.chunk \in {0, NChunks}
        /\ next <= MaxNum
        /\ Move(c, "off", 0)
        /\ got' = [got EXCEPT ![c] = Append(@, r.chunk)]
        /\ toDev' = [toDev EXCEPT ![c] = Append(@, [sentence(c) EXCEPT !.tag = "LOF", !.num = next])]
        /\ UNCHANGED hostEnc
     \/ /\ IsAnswer(c, r)
        /\ r.kind \in Refusals \/ hostStep[c] = "SEP"
        /\ Move(c, "off", 0)
        /\ UNCHANGED <<hostEnc, got, toDev>>
     \/ /\ ~IsAnswer(c, r)
        /\ UNCHANGED <<toDev, hostVars>>
  /\ UNCHANGED <<turn, devVars, tcpVars>>

\* A host gives up; over Ethernet it closes its connection.
HostGiveUp(c) ==
  /\ c = "SERIAL_A"
  /\ hostStep[c] # "off"
  /\ Move(c, "off", 0)
  /\ UNCHANGED <<turn, devVars, tcpVars, toDev, toHost, hostEnc, got>>

HostConnect ==
  /\ "ETHERNET" \in Hosts
  /\ ~backlog /\ tcpSocketFd # "live"
  /\ backlog' = TRUE
  /\ UNCHANGED <<turn, devVars, tcpSocketFd, toDev, toHost, hostVars>>

\* The host closes its connection; what it has sent before can still be read.
HostDisconnect ==
  /\ tcpSocketFd = "live"
  /\ tcpSocketFd' = "dead"
  /\ Move("ETHERNET", "off", 0)
  /\ toHost' = [toHost EXCEPT !["ETHERNET"] = <<>>]
  /\ UNCHANGED <<turn, devVars, backlog, toDev, hostEnc, got>>

Host(c) == HostStart(c) \/ HostSend(c) \/ HostReceive(c) \/ HostGiveUp(c)

Next ==
  \/ Controller
  \/ Lose \/ Garble
  \/ \E c \in Hosts : Host(c)
  \/ HostConnect \/ HostDisconnect

Spec == Init /\ [][Next]_vars

(***************************************************************************)
(* The main loop keeps turning and the hosts repeat their requests; a line *)
(* that is used again and again lets a sentence through now and then.      *)
(* Nothing forces a host to begin, and nobody has to give up.              *)
(***************************************************************************)
Fairness ==
  /\ WF_vars(MainLoop) /\ SF_vars(ReadUART) /\ SF_vars(ReadTcp)
  /\ \A c \in Hosts : WF_vars(HostSend(c)) /\ SF_vars(HostReceive(c))

FairSpec == Spec /\ Fairness

-----------------------------------------------------------------------------
(* Properties.                                                               *)

TypeOK ==
  /\ session \in Sessions
  /\ Len(LastSentSentence) <= 1 /\ \A i \in 1..Len(LastSentSentence) : LastSentSentence[i] \in Responses
  /\ \A c \in Channels :
       /\ Len(OutgoingBuffer[c]) <= BufSize
       /\ \A i \in 1..Len(OutgoingBuffer[c]) : OutgoingBuffer[c][i] \in Responses \cup {Space}
       /\ IncommingBufferLength[c] \in 0..(LengthMod - 1)
       /\ \A i \in 1..Len(toDev[c]) : toDev[c][i] \in Sentences
       /\ \A i \in 1..Len(toHost[c]) : toHost[c][i] \in Responses
       /\ hostStep[c] \in {"off"} \cup Tags
       /\ hostArg[c] \in Args /\ hostNum[c] \in 0..MaxNum /\ hostEnc[c] \in BOOLEAN
       /\ \A i \in 1..Len(got[c]) : got[c][i] \in 0..NChunks
  /\ turn \in {"tcp", "uart"}
  /\ tcpSocketFd \in {"none", "live", "dead"} /\ backlog \in BOOLEAN

\* A user is logged on only over a channel that owns the session, whatever
\* order log-offs, device type requests and connections of two hosts come in.
SessionOwned == session.UserLoggedOn => session.ActiveChannel # "NONE"

\* The parts the host on channel c has are the first ones of the file.
PartsInOrder(c) == \A i \in 1..Len(got[c]) : got[c][i] = i

\* The controller's file position is where the host on c is, or one part ahead.
PositionInStep(c) ==
  hostStep[c] = "CFI" /\ session.ActiveChannel = c /\ session.UserLoggedOn
    => session.CrntFileTransferPos - Len(got[c]) \in {0, 1}

\* Sentences are repeated, lost and garbled, and another host breaks into the
\* session: a host nevertheless receives the parts of its file in order, none
\* twice and none left out, although CFI reads on from a position in the
\* controller.
FileIntact == \A c \in Hosts : PartsInOrder(c)

\* The controller's file position is where the waiting host is, or one part
\* ahead if the response is still on its way or lost.
TransferInStep == \A c \in Hosts : PositionInStep(c)

\* What a host does with the file it fetches is a transfer of FileTransfer: every
\* response it takes for a part is the next part, and what it takes for the end
\* of the file is the end.
fetchingBar == [c \in Channels |-> hostStep[c] \in {"GFI", "CFI"}]

Transfer == INSTANCE FileTransfer WITH Receivers <- Channels, fetching <- fetchingBar

FetchSpec == Transfer!Spec

\* A host that has begun to fetch a file gets all of it, or gives up: the
\* repeated requests and stored responses make up for what the line loses.
TransferCompletes == \A c \in Hosts : hostStep[c] = "GFI" ~> hostStep[c] = "off"

\* A login is answered even when the keep-alive bytes of a session whose
\* connection has gone have filled the output buffer.
LoginAnswered == \A c \in Hosts : hostStep[c] = "LGN" ~> hostStep[c] # "LGN"

\* A host that connects is accepted in the end ("If no active socke then check
\* Listening sock", main.cpp:833), also after the last one has gone.
WaitingHostAccepted == backlog ~> ~backlog
=============================================================================
