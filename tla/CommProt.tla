------------------------------- MODULE CommProt -------------------------------
(***************************************************************************)
(* The sentence protocol of src/CommProt.cpp: what CommProt_processSentence *)
(* makes of one sentence, as a function of the session it finds. There is  *)
(* one session for all channels, kept in globals; here it is a record with *)
(* the globals' names.                                                     *)
(*                                                                         *)
(* A sentence is [tag, arg, num, enc, ok]: its command, what matters of    *)
(* its parameters, the sentence number, whether it was sent encrypted and  *)
(* whether its checksum is right. A response is [kind, num, chunk, enc].   *)
(* Of the commands for users who are logged on the model has one that can  *)
(* be repeated safely (GFI, start of a file), one that cannot (CFI, next   *)
(* part of the file), SEP, which ends its own session, and LOF.            *)
(***************************************************************************)
EXTENDS Naturals, Sequences

CONSTANTS NChunks,   \* parts of the file that is transferred (345 bytes each)
          MaxNum     \* bound: highest sentence number in use

ASSUME ProtocolAssumption ==
  /\ NChunks \in Nat \ {0}
  /\ MaxNum \in Nat \ {0}

\* CHANNEL_BLUETOOTH has a buffer, but nothing in main.cpp reads or writes it.
Channels == {"SERIAL_A", "ETHERNET"}

Tags  == {"LGN", "GDT", "LOF", "GFI", "CFI", "SEP", "unreadable"}
Kinds == {"EOK", "LGF", "DTY", "DTY with key", "NTL", "ALC", "CHK", "FIL"}

\* The password is the one of the level that is asked for, a wrong one, or
\* missing; GDT sends a key or none.
Levels    == [administrator |-> 0, user |-> 1, UL2 |-> 2]
Passwords == DOMAIN Levels \cup {"wrong", "missing"}
Args      == Passwords \cup {"plain", "key", "none"}

Sentences == [tag : Tags, arg : Args, num : 0..MaxNum, enc : BOOLEAN, ok : BOOLEAN]
Responses == [kind : Kinds, num : 0..MaxNum, chunk : 0..NChunks, enc : BOOLEAN]

Sessions ==
  [ActiveChannel : Channels \cup {"NONE"}, UserLoggedOn : BOOLEAN, UserLevel : 0..2,
   UseEncryption : BOOLEAN, ExpectedSentenceNum : 0..(MaxNum + 1),
   CrntFileTransferPos : 0..NChunks]

InitSession ==
  [ActiveChannel |-> "NONE", UserLoggedOn |-> FALSE, UserLevel |-> 0,
   UseEncryption |-> FALSE, ExpectedSentenceNum |-> 0, CrntFileTransferPos |-> 0]

\* What a log-off, a plain GDT and CommProt_resetChannel do to the session.
Cleared(s) ==
  [s EXCEPT !.ActiveChannel = "NONE", !.UserLoggedOn = FALSE, !.UseEncryption = FALSE]

\* The commands are looked for in the text as received, before it is decrypted,
\* its checksum is verified or its channel compared.
HasPrefix(m, tags) == ~m.enc /\ m.tag \in tags

AfterPrefix(s, m) == IF HasPrefix(m, {"LOF", "GDT"}) THEN Cleared(s) ELSE s

\* What is read of sentence m. A text that is decrypted although it was sent
\* plain, or the reverse, holds no fields or arbitrary ones.
Unreadable(n) == [tag |-> "unreadable", arg |-> "none", num |-> n, enc |-> FALSE, ok |-> FALSE]
Readings(s, m) ==
  IF m.enc = s.UseEncryption THEN {m} ELSE {Unreadable(n) : n \in 0..MaxNum}

\* What processing leaves: the session, the responses to append (none or one)
\* and whether the channel's buffers were emptied on the way.
Result(s, reply) == [session |-> s, reply |-> reply, emptied |-> FALSE]

Reply(s, kind, n) == <<[kind |-> kind, num |-> n, chunk |-> 0, enc |-> s.UseEncryption]>>

\* Seeded fault: logins are not excepted.
IsDuplicate_Login(s, c, r) ==
  /\ s.ActiveChannel = c
  /\ r.num < s.ExpectedSentenceNum

\* A sentence received before. The exception for a checksum error as the last
\* response compares with "$CHK"; the stored text begins with 0x19, so that
\* the exception never applies. (GSN is excepted too, but is no command.)
IsDuplicate(s, c, r) ==
  /\ s.ActiveChannel = c
  /\ r.num < s.ExpectedSentenceNum
  /\ r.tag \notin {"LGN", "GDT"}

\* Seeded fault: a failed login keeps the user logged on.
ProcessLGN_Keep(s, c, r) ==
  IF r.arg = "missing" THEN Result([s EXCEPT !.UserLevel = 2], <<>>)
  ELSE IF r.arg = "wrong" THEN
    Result([s EXCEPT !.UserLevel = 2, !.ActiveChannel = "NONE"], Reply(s, "LGF", r.num))
  ELSE Result([s EXCEPT !.UserLevel = Levels[r.arg], !.UserLoggedOn = TRUE,
                        !.ActiveChannel = c], Reply(s, "EOK", r.num))

\* Without a password the request is left alone, but for the level.
ProcessLGN(s, c, r) ==
  IF r.arg = "missing" THEN Result([s EXCEPT !.UserLevel = 2], <<>>)
  ELSE IF r.arg = "wrong" THEN
    Result([s EXCEPT !.UserLevel = 2, !.UserLoggedOn = FALSE, !.ActiveChannel = "NONE"],
           Reply(s, "LGF", r.num))
  ELSE Result([s EXCEPT !.UserLevel = Levels[r.arg], !.UserLoggedOn = TRUE,
                        !.ActiveChannel = c], Reply(s, "EOK", r.num))

\* The response goes out before the encryption begins.
ProcessGDT(s, r) ==
  IF r.arg = "key" THEN Result([s EXCEPT !.UseEncryption = TRUE], Reply(s, "DTY with key", r.num))
  ELSE Result(s, Reply(s, "DTY", r.num))

\* A part of the file from the position up; past the end an empty one.
Part(s, n, chunk) == <<[kind |-> "FIL", num |-> n, chunk |-> chunk, enc |-> s.UseEncryption]>>

\* Seeded fault: the position of an earlier transfer is kept.
ProcessGFI_KeepPos(s, r) == Result(s, Part(s, r.num, 1))

ProcessGFI(s, r) == Result([s EXCEPT !.CrntFileTransferPos = 1], Part(s, r.num, 1))

ProcessCFI(s, r) ==
  IF s.CrntFileTransferPos < NChunks
  THEN Result([s EXCEPT !.CrntFileTransferPos = @ + 1], Part(s, r.num, s.CrntFileTransferPos + 1))
  ELSE Result(s, Part(s, r.num, 0))

\* Reached by encrypted requests only; leaves the encryption on.
ProcessLOF(s, r) ==
  Result([s EXCEPT !.UserLoggedOn = FALSE, !.ActiveChannel = "NONE"], Reply(s, "EOK", r.num))

\* Over Ethernet the channel is reset, and the response no longer encrypted.
ProcessSEP(s, c, r) ==
  IF c = "ETHERNET"
  THEN [session |-> Cleared(s), reply |-> Reply(Cleared(s), "EOK", r.num), emptied |-> TRUE]
  ELSE Result(s, Reply(s, "EOK", r.num))

\* The commands; all but two need a user who is logged on. Others are ignored.
Dispatch(s, c, r) ==
  CASE r.tag = "LGN" -> ProcessLGN(s, c, r)
    [] r.tag = "GDT" -> ProcessGDT(s, r)
    [] r.tag \notin {"LGN", "GDT"} /\ ~s.UserLoggedOn -> Result(s, Reply(s, "NTL", r.num))
    [] r.tag = "GFI" /\ s.UserLoggedOn -> ProcessGFI(s, r)
    [] r.tag = "CFI" /\ s.UserLoggedOn -> ProcessCFI(s, r)
    [] r.tag = "LOF" /\ s.UserLoggedOn -> ProcessLOF(s, r)
    [] r.tag = "SEP" /\ s.UserLoggedOn -> ProcessSEP(s, c, r)
    [] OTHER -> Result(s, <<>>)

\* Seeded fault: the number expected next is that of the sentence just accepted.
Accepted_SameNum(s, c, r) ==
  [s EXCEPT !.ActiveChannel = c, !.ExpectedSentenceNum = r.num]

Accepted(s, c, r) == [s EXCEPT !.ActiveChannel = c, !.ExpectedSentenceNum = r.num + 1]

\* Seeded fault: a sentence received before is not answered again.
Answer_Once(s, last, c, r) ==
  IF IsDuplicate(s, c, r) THEN Result(s, <<>>)
  ELSE IF ~r.ok THEN Result(s, Reply(s, "CHK", r.num))
  ELSE IF s.ActiveChannel \notin {"NONE", c} THEN Result(s, Reply(s, "ALC", r.num))
  ELSE Dispatch(Accepted(s, c, r), c, r)

\* The checks, in the order of their early returns; last is the stored response.
Answer(s, last, c, r) ==
  IF IsDuplicate(s, c, r) THEN Result(s, last)
  ELSE IF ~r.ok THEN Result(s, Reply(s, "CHK", r.num))
  ELSE IF s.ActiveChannel \notin {"NONE", c} THEN Result(s, Reply(s, "ALC", r.num))
  ELSE Dispatch(Accepted(s, c, r), c, r)

\* The results processing sentence m on channel c can have; a text without
\* fields is dropped.
ProcessSentence(s, last, c, m) ==
  LET s0 == AfterPrefix(s, m) IN
  IF HasPrefix(m, {"LOF"}) THEN {Result(s0, <<>>)}
  ELSE {Answer(s0, last, c, r) : r \in Readings(s0, m)}
         \cup IF m.enc = s0.UseEncryption THEN {} ELSE {Result(s0, <<>>)}
=============================================================================
