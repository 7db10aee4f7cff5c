------------------------ MODULE DfiApplicationProofs ------------------------
(***************************************************************************)
(* What the host and the guest promise each other, whatever the guest      *)
(* does, and what the application makes of it: proofs for every set of     *)
(* records and functions, every behaviour of the guests and every number   *)
(* of polls.                                                               *)
(***************************************************************************)
EXTENDS DfiApplication, SequenceTheorems, TLAPS

(***************************************************************************)
(* Short sequences.                                                        *)
(***************************************************************************)
LEMMA One ==
  ASSUME NEW x
  PROVE  /\ Append(<<>>, x) = <<x>>
         /\ <<>> \o <<x>> = <<x>>
         /\ Len(<<x>>) = 1 /\ <<x>>[1] = x /\ <<x>> # <<>> /\ DOMAIN <<x>> = {1}
         /\ Head(<<x>>) = x /\ Tail(<<x>>) = <<>>
         /\ SubSeq(<<x>>, 2, 1) = <<>>
  OBVIOUS

LEMMA Two ==
  ASSUME NEW x, NEW y
  PROVE  /\ Append(<<x>>, y) = <<x, y>>
         /\ <<x>> \o <<y>> = <<x, y>>
         /\ Len(<<x, y>>) = 2 /\ <<x, y>>[1] = x /\ <<x, y>>[2] = y /\ <<x, y>> # <<>>
         /\ DOMAIN <<x, y>> = {1, 2}
         /\ Head(<<x, y>>) = x
         /\ SubSeq(<<x, y>>, 3, 2) = <<>>
<1> DEFINE S == {x, y}
<1>1. <<x>> \in Seq(S) /\ <<y>> \in Seq(S) /\ <<x, y>> \in Seq(S)
  OBVIOUS
<1>2. Len(<<x>>) = 1 /\ Len(<<y>>) = 1 /\ Len(<<x, y>>) = 2
  OBVIOUS
<1>3. <<x>>[1] = x /\ <<y>>[1] = y /\ <<x, y>>[1] = x /\ <<x, y>>[2] = y
  OBVIOUS
<1> HIDE DEF S
<1>4. <<x>> \o <<y>> = <<x, y>>
  <2>1. /\ <<x>> \o <<y>> \in Seq(S)
        /\ Len(<<x>> \o <<y>>) = 2
    BY <1>1, <1>2, ConcatProperties
  <2>2. \A i \in 1 .. 2 : (<<x>> \o <<y>>)[i] = IF i <= 1 THEN <<x>>[i] ELSE <<y>>[i - 1]
    BY <1>1, <1>2, ConcatProperties
  <2>3. (<<x>> \o <<y>>)[1] = x /\ (<<x>> \o <<y>>)[2] = y
    BY <1>3, <2>2
  <2>4. \A i \in 1 .. 2 : (<<x>> \o <<y>>)[i] = <<x, y>>[i]
    BY <1>3, <2>3
  <2> QED BY <1>1, <1>2, <2>1, <2>4, SeqEqual
<1>5. Append(<<x>>, y) = <<x, y>>
  <2>1. Append(<<x>>, y) = <<x>> \o <<y>>
    BY <1>1, AppendIsConcat DEF S
  <2> QED BY <1>4, <2>1
<1>6. /\ Len(<<x, y>>) = 2 /\ <<x, y>>[1] = x /\ <<x, y>>[2] = y /\ <<x, y>> # <<>>
      /\ DOMAIN <<x, y>> = {1, 2}
  OBVIOUS
<1>7. Head(<<x, y>>) = x
  OBVIOUS
<1>8. SubSeq(<<x, y>>, 3, 2) = <<>>
  OBVIOUS
<1> QED BY <1>4, <1>5, <1>6, <1>7, <1>8

\* A guest goes on with the rest of its script, and after "DONE" nothing is left.
LEMMA ScriptRest ==
  ASSUME NEW s \in Script, s # <<>>
  PROVE  /\ Head(s) \in FuncName \cup {"DONE", "spin"}
         /\ Tail(s) \in Script
         /\ Head(s) = "DONE" => Tail(s) = <<>>
<1> DEFINE S == FuncName \cup {"DONE", "spin"}
<1>1. s \in Seq(S) /\ \A i \in DOMAIN s : s[i] = "DONE" => i = Len(s)
  BY DEF Script
<1> HIDE DEF S
<1>2. Len(s) \in Nat \ {0} /\ DOMAIN s = 1 .. Len(s)
  BY <1>1, LenProperties, EmptySeq
<1>3. /\ Head(s) \in S /\ Tail(s) \in Seq(S) /\ Len(Tail(s)) = Len(s) - 1
      /\ \A i \in 1 .. Len(Tail(s)) : Tail(s)[i] = s[i + 1]
  BY <1>1, HeadTailProperties
<1>4. Head(s) = s[1]
  BY <1>1
<1>5. DOMAIN Tail(s) = 1 .. Len(Tail(s))
  BY <1>3, LenProperties
<1>6. \A i \in DOMAIN Tail(s) : Tail(s)[i] = "DONE" => i = Len(Tail(s))
  BY <1>1, <1>2, <1>3, <1>5
<1>7. Head(s) = "DONE" => Len(Tail(s)) = 0
  BY <1>1, <1>2, <1>3, <1>4
<1>8. Head(s) = "DONE" => Tail(s) = <<>>
  BY <1>3, <1>7, EmptySeq
<1> QED BY <1>3, <1>6, <1>8 DEF Script, S

-----------------------------------------------------------------------------
(***************************************************************************)
(* The inductive invariant of the runner.  At most one message is on its   *)
(* way from the guest to the host, in the pipe or half of it in the buffer *)
(* of the host; what the guest does tells which.                           *)
(***************************************************************************)
Busy == host \in {"argument", "poll", "read", "rest", "reap"}

Calls == FuncName \cup {"DONE"}

\* A part of the message of a call, of a guest with this argument.
Part(arg, call, part) ==
  [call |-> call, part |-> part, value |-> IF call = "DONE" THEN arg ELSE NoValue]

Empty == buffered = <<>> /\ stdoutPipe = <<>>

Half(call) ==
  \/ buffered = <<>> /\ stdoutPipe = <<Part(argument, call, "head")>>
  \/ buffered = <<Part(argument, call, "head")>> /\ stdoutPipe = <<>>

Complete(call) ==
  \/ buffered = <<>> /\ stdoutPipe = <<Part(argument, call, "whole")>>
  \/ /\ buffered = <<>>
     /\ stdoutPipe = <<Part(argument, call, "head"), Part(argument, call, "rest")>>
  \/ /\ buffered = <<Part(argument, call, "head")>>
     /\ stdoutPipe = <<Part(argument, call, "rest")>>

MessageInv ==
  /\ guest \in {"none", "start"} => Empty
  /\ guest = "run" => Empty \/ (script = <<>> /\ Complete("DONE"))
  /\ guest = "write" => script # <<>> /\ Head(script) \in Calls /\ Half(Head(script))
  /\ guest = "await" =>
       Empty \/ (stdinPipe = <<>> /\ \E call \in FuncName : Complete(call))
  /\ guest \in {"closed", "ended", "killed"} => Empty \/ \E call \in Calls : Half(call) \/ Complete(call)

\* What the guest has been sent: its argument, or an answer it waits for.
InputInv ==
  /\ guest # "none" => argument \in Argument
  /\ guest = "start" => stdinPipe = <<>> \/ stdinPipe = <<argument>>
  /\ guest \in {"run", "write"} => stdinPipe = <<>>
  /\ guest = "await" => stdinPipe = <<>> \/ stdinPipe = <<NoValue>>
  /\ guest \in {"run", "write", "await"} => input = argument

\* The host keeps nothing in its buffer but half a message it waits for the
\* rest of, and knows of the result when the pipe no longer holds it.
HostInv ==
  /\ Busy => polls < Polls /\ guest \notin {"none", "killed"}
  /\ host = "argument" => guest \in {"start", "closed", "ended"} /\ stdinPipe = <<>>
  /\ host \in {"argument", "poll", "reap"} => buffered = <<>>
  /\ host = "read" => buffered = <<>> /\ stdoutPipe # <<>>
  /\ host = "rest" => buffered # <<>>
  /\ hup => guest \in {"closed", "ended", "killed"}
  /\ returnBuffer \in {NoValue, argument}
  /\ noticed => returnBuffer # NoValue \/ (host = "read" /\ ResultIn(stdoutPipe))
  /\ NoRunaway

RunnerInv == RunnerTypeOK /\ MessageInv /\ InputInv /\ HostInv

LEMMA PartType ==
  ASSUME NEW arg \in Argument, NEW call \in Calls, NEW part \in {"whole", "head", "rest"}
  PROVE  /\ Part(arg, call, part) \in Chunk
         /\ Part(arg, call, part).call = call /\ Part(arg, call, part).part = part
         /\ Part(arg, call, part).value = IF call = "DONE" THEN arg ELSE NoValue
  BY DEF Part, Chunk, Calls

\* Messages in the pipe and in the buffer have their types.
LEMMA ShapeTypes ==
  ASSUME argument \in Argument, NEW call \in Calls, Empty \/ Half(call) \/ Complete(call)
  PROVE  buffered \in Seq(Chunk) /\ stdoutPipe \in Seq(Chunk)
<1> DEFINE W == Part(argument, call, "whole")
           H == Part(argument, call, "head")
           R == Part(argument, call, "rest")
<1>1. W \in Chunk /\ H \in Chunk /\ R \in Chunk
  BY PartType
<1> HIDE DEF W, H, R
<1>2. <<>> \in Seq(Chunk) /\ <<W>> \in Seq(Chunk) /\ <<H>> \in Seq(Chunk) /\ <<R>> \in Seq(Chunk)
      /\ <<H, R>> \in Seq(Chunk)
  BY <1>1
<1> QED BY <1>2 DEF Empty, Half, Complete, W, H, R

-----------------------------------------------------------------------------
(***************************************************************************)
(* The steps of the guest.                                                 *)
(***************************************************************************)

\* It ends, or closes its output: what is on its way stays there.
LEMMA GuestLeaves ==
  ASSUME RunnerInv, GuestFails \/ GuestTraps \/ GuestCloses \/ GuestExits
  PROVE  RunnerInv'
<1>1. /\ UNCHANGED <<hostVars, script, input, pipes>>
      /\ guest \in {"start", "run", "write", "await", "closed"} /\ guest' \in {"closed", "ended"}
  BY DEF GuestFails, GuestTraps, GuestCloses, GuestExits
<1>2. RunnerTypeOK'
  BY <1>1 DEF RunnerInv, RunnerTypeOK, hostVars, pipes
<1>3. MessageInv'
  BY <1>1 DEF RunnerInv, MessageInv, Empty, Half, Complete, Calls, hostVars, pipes
<1>4. InputInv'
  BY <1>1 DEF RunnerInv, InputInv, hostVars, pipes
<1>5. HostInv'
  BY <1>1 DEF RunnerInv, HostInv, Busy, NoRunaway, ResultIn, hostVars, pipes
<1> QED BY <1>2, <1>3, <1>4, <1>5 DEF RunnerInv

\* It reads its argument or the answer to its call.
LEMMA GuestReceives ==
  ASSUME RunnerInv, GuestReads \/ GuestGetsAnswer
  PROVE  RunnerInv'
<1>1. /\ UNCHANGED <<hostVars, script, stdoutPipe>>
      /\ stdinPipe # <<>> /\ stdinPipe' = Tail(stdinPipe)
      /\ guest' = "run"
      /\ \/ guest = "start" /\ input' = Head(stdinPipe)
         \/ guest = "await" /\ input' = input
  BY DEF GuestReads, GuestGetsAnswer
<1>2. argument \in Argument /\ argument' = argument
  BY <1>1 DEF RunnerInv, InputInv, hostVars
<1>3. stdinPipe' = <<>> /\ input' = argument
  <2>1. CASE guest = "start"
    <3>1. stdinPipe = <<argument>>
      BY <1>1, <2>1 DEF RunnerInv, InputInv
    <3>2. Head(stdinPipe) = argument /\ Tail(stdinPipe) = <<>>
      BY <3>1, One
    <3> QED BY <1>1, <2>1, <3>2
  <2>2. CASE guest = "await"
    <3>1. stdinPipe = <<NoValue>> /\ input = argument
      BY <1>1, <2>2 DEF RunnerInv, InputInv
    <3>2. Tail(stdinPipe) = <<>>
      BY <3>1, One
    <3> QED BY <1>1, <2>2, <3>1, <3>2
  <2> QED BY <1>1, <2>1, <2>2
<1>4. Empty
  BY <1>1 DEF RunnerInv, MessageInv
<1>5. RunnerTypeOK'
  BY <1>1, <1>2, <1>3 DEF RunnerInv, RunnerTypeOK, hostVars
<1>6. MessageInv'
  BY <1>1, <1>4 DEF MessageInv, Empty, hostVars
<1>7. InputInv'
  BY <1>1, <1>2, <1>3 DEF InputInv
<1>8. HostInv'
  BY <1>1, <1>3 DEF RunnerInv, HostInv, Busy, NoRunaway, ResultIn, hostVars
<1> QED BY <1>5, <1>6, <1>7, <1>8 DEF RunnerInv

\* It writes a message, or the first part of one: none was on its way.
LEMMA GuestBegins ==
  ASSUME RunnerInv, GuestWrites
  PROVE  RunnerInv'
<1> DEFINE call == Head(script)
           W == Part(argument, call, "whole")
           H == Part(argument, call, "head")
<1>1. /\ guest = "run" /\ script # <<>> /\ call # "spin"
      /\ UNCHANGED <<hostVars, input, stdinPipe>>
      /\ \/ /\ stdoutPipe' = Append(stdoutPipe, Message("whole"))
            /\ guest' = (IF call = "DONE" THEN "run" ELSE "await")
            /\ script' = Tail(script)
         \/ /\ stdoutPipe' = Append(stdoutPipe, Message("head"))
            /\ guest' = "write" /\ script' = script
  BY DEF GuestWrites, AfterMessage
<1>2. /\ argument \in Argument /\ input = argument /\ stdinPipe = <<>>
      /\ Empty
  BY <1>1 DEF RunnerInv, InputInv, MessageInv
<1>3. /\ call \in Calls /\ Tail(script) \in Script
      /\ call = "DONE" => Tail(script) = <<>>
  BY <1>1, ScriptRest DEF RunnerInv, RunnerTypeOK, Calls
<1>4. Message("whole") = W /\ Message("head") = H
  BY <1>2 DEF Message, Part
<1>5. /\ W \in Chunk /\ H \in Chunk /\ H.part = "head"
  BY <1>2, <1>3, PartType
<1> HIDE DEF W, H
<1>6. \/ /\ stdoutPipe' = <<W>> /\ script' = Tail(script)
         /\ guest' = (IF call = "DONE" THEN "run" ELSE "await")
      \/ stdoutPipe' = <<H>> /\ guest' = "write" /\ script' = script
  BY <1>1, <1>2, <1>4, One DEF Empty
<1>7. RunnerTypeOK'
  <2>1. stdoutPipe' \in Seq(Chunk)
    BY <1>5, <1>6
  <2>2. script' \in Script /\ guest' \in {"run", "await", "write"}
    BY <1>3, <1>6 DEF RunnerInv, RunnerTypeOK
  <2> QED BY <1>1, <2>1, <2>2 DEF RunnerInv, RunnerTypeOK, hostVars
<1>8. buffered' = <<>> /\ argument' = argument /\ script # <<>>
  BY <1>1, <1>2 DEF Empty, hostVars
<1>9. MessageInv'
  <2>1. CASE stdoutPipe' = <<W>> /\ script' = Tail(script) /\ call = "DONE" /\ guest' = "run"
    <3>1. Complete("DONE")'
      BY <1>8, <2>1 DEF Complete, W
    <3> QED BY <1>3, <2>1, <3>1 DEF MessageInv
  <2>2. CASE stdoutPipe' = <<W>> /\ call # "DONE" /\ guest' = "await"
    <3>1. PICK c \in FuncName : c = call
      BY <1>3, <2>2 DEF Calls
    <3>2. Complete(c)' /\ stdinPipe' = <<>>
      BY <1>1, <1>2, <1>8, <2>2, <3>1 DEF Complete, W
    <3> QED BY <2>2, <3>1, <3>2 DEF MessageInv
  <2>3. CASE stdoutPipe' = <<H>> /\ guest' = "write" /\ script' = script
    <3>1. Half(Head(script))'
      BY <1>8, <2>3 DEF Half, H
    <3> QED BY <1>3, <1>8, <2>3, <3>1 DEF MessageInv
  <2> QED BY <1>6, <2>1, <2>2, <2>3
<1>10. InputInv'
  BY <1>1, <1>2, <1>6, <1>8 DEF InputInv, hostVars
<1>11. HostInv'
  <2>1. stdoutPipe' # <<>> /\ guest' \in {"run", "await", "write"}
    BY <1>6, One
  <2>2. host # "read" /\ host # "argument"
    BY <1>1, <1>2 DEF RunnerInv, HostInv, Empty
  <2> QED BY <1>1, <2>1, <2>2 DEF RunnerInv, HostInv, Busy, NoRunaway, hostVars
<1> QED BY <1>7, <1>9, <1>10, <1>11 DEF RunnerInv

\* It writes the rest of a message the host may have taken half of.
LEMMA GuestFinishes ==
  ASSUME RunnerInv, GuestWritesRest
  PROVE  RunnerInv'
<1> DEFINE call == Head(script)
           H == Part(argument, call, "head")
           R == Part(argument, call, "rest")
<1>1. /\ guest = "write" /\ UNCHANGED <<hostVars, input, stdinPipe>>
      /\ stdoutPipe' = Append(stdoutPipe, Message("rest"))
      /\ guest' = (IF call = "DONE" THEN "run" ELSE "await")
      /\ script' = Tail(script)
  BY DEF GuestWritesRest, AfterMessage
<1>2. /\ argument \in Argument /\ input = argument /\ stdinPipe = <<>>
      /\ script # <<>> /\ call \in Calls /\ Half(call)
  BY <1>1 DEF RunnerInv, InputInv, MessageInv
<1>3. /\ Tail(script) \in Script
      /\ call = "DONE" => Tail(script) = <<>>
  BY <1>2, ScriptRest DEF RunnerInv, RunnerTypeOK
<1>4. Message("rest") = R
  BY <1>2 DEF Message, Part
<1>5. H \in Chunk /\ R \in Chunk /\ H.part = "head"
  BY <1>2, PartType
<1> HIDE DEF H, R
<1>6. /\ buffered' = buffered
      /\ \/ buffered = <<>> /\ stdoutPipe = <<H>> /\ stdoutPipe' = <<H, R>>
         \/ buffered = <<H>> /\ stdoutPipe = <<>> /\ stdoutPipe' = <<R>>
  <2>1. Append(<<>>, R) = <<R>> /\ Append(<<H>>, R) = <<H, R>>
    BY One, Two
  <2>2. stdoutPipe' = Append(stdoutPipe, R) /\ buffered' = buffered
    BY <1>1, <1>4 DEF hostVars
  <2>3. \/ buffered = <<>> /\ stdoutPipe = <<H>>
        \/ buffered = <<H>> /\ stdoutPipe = <<>>
    BY <1>2 DEF Half, H
  <2> QED BY <2>1, <2>2, <2>3
<1>7. PICK c \in Calls : c = call
  BY <1>2
<1>8. Complete(c)'
  BY <1>1, <1>6, <1>7 DEF Complete, H, R, hostVars
<1>9. RunnerTypeOK'
  <2>1. <<R>> \in Seq(Chunk) /\ <<H, R>> \in Seq(Chunk)
    BY <1>5
  <2>2. stdoutPipe' \in Seq(Chunk)
    BY <1>6, <2>1
  <2> QED BY <1>1, <1>3, <2>2 DEF RunnerInv, RunnerTypeOK, hostVars
<1>10. MessageInv'
  BY <1>1, <1>2, <1>3, <1>7, <1>8 DEF MessageInv, Calls
<1>11. InputInv'
  BY <1>1, <1>2 DEF InputInv, hostVars
<1>12. HostInv'
  <2>1. stdoutPipe' # <<>>
    BY <1>6, One, Two
  <2>2. noticed => returnBuffer # NoValue
    <3>1. CASE stdoutPipe = <<>>
      BY <3>1 DEF RunnerInv, HostInv, ResultIn
    <3>2. CASE stdoutPipe = <<H>>
      <4>1. DOMAIN stdoutPipe = {1} /\ stdoutPipe[1] = H
        BY <3>2, One
      <4> QED BY <1>5, <4>1 DEF RunnerInv, HostInv, ResultIn
    <3> QED BY <1>6, <3>1, <3>2
  <2> QED BY <1>1, <2>1, <2>2 DEF RunnerInv, HostInv, Busy, NoRunaway, hostVars
<1> QED BY <1>9, <1>10, <1>11, <1>12 DEF RunnerInv

LEMMA GuestStep ==
  ASSUME RunnerInv, Guest
  PROVE  RunnerInv'
  BY GuestLeaves, GuestReceives, GuestBegins, GuestFinishes DEF Guest

-----------------------------------------------------------------------------
(***************************************************************************)
(* The steps of the host.                                                  *)
(***************************************************************************)

\* A step of the host that leaves the messages alone.
LEMMA SameMessages ==
  ASSUME RunnerInv,
         UNCHANGED <<argument, buffered, stdoutPipe, script, input>>,
         guest' = guest \/ (guest' = "killed" /\ guest # "none"),
         stdinPipe' = stdinPipe
           \/ (guest \in {"start", "closed", "ended"} /\ stdinPipe' = <<argument>>)
  PROVE  MessageInv' /\ InputInv'
<1>1. MessageInv'
  <2>1. CASE guest' = guest /\ stdinPipe' = stdinPipe
    BY <2>1 DEF RunnerInv, MessageInv, Empty, Half, Complete
  <2>2. CASE guest' = guest /\ guest \in {"start", "closed", "ended"}
    BY <2>2 DEF RunnerInv, MessageInv, Empty, Half, Complete
  <2>3. CASE guest' = "killed" /\ guest # "none"
    <3>1. Empty \/ \E call \in Calls : Half(call) \/ Complete(call)
      BY <2>3 DEF RunnerInv, RunnerTypeOK, MessageInv, Calls
    <3>2. Empty' \/ \E call \in Calls : Half(call)' \/ Complete(call)'
      BY <3>1 DEF Empty, Half, Complete
    <3> QED BY <2>3, <3>2 DEF MessageInv
  <2> QED BY <2>1, <2>2, <2>3
<1>2. InputInv'
  BY DEF RunnerInv, InputInv
<1> QED BY <1>1, <1>2

LEMMA WriteArgumentInv ==
  ASSUME RunnerInv, WriteArgument
  PROVE  RunnerInv'
<1>1. /\ host = "argument"
      /\ UNCHANGED <<argument, polls, hup, buffered, returnBuffer, noticed, guestVars, stdoutPipe>>
      /\ \/ ~ PipesOpen /\ host' = "dead" /\ stdinPipe' = stdinPipe
         \/ PipesOpen /\ host' = "poll" /\ stdinPipe' = Append(stdinPipe, argument)
  BY DEF WriteArgument
<1>2. /\ guest \in {"start", "closed", "ended"} /\ stdinPipe = <<>> /\ buffered = <<>>
      /\ argument \in Argument
  BY <1>1 DEF RunnerInv, HostInv, InputInv
<1>3. stdinPipe' = stdinPipe \/ (guest \in {"start", "closed", "ended"} /\ stdinPipe' = <<argument>>)
  BY <1>1, <1>2, One
<1>4. MessageInv' /\ InputInv'
  BY <1>1, <1>3, SameMessages DEF guestVars
<1>5. RunnerTypeOK'
  <2>1. <<argument>> \in Seq(Argument \cup {NoValue})
    BY <1>2
  <2>2. stdinPipe' \in Seq(Argument \cup {NoValue})
    BY <1>3, <2>1 DEF RunnerInv, RunnerTypeOK
  <2> QED BY <1>1, <2>2 DEF RunnerInv, RunnerTypeOK, guestVars
<1>6. HostInv'
  BY <1>1, <1>2 DEF RunnerInv, HostInv, Busy, NoRunaway, guestVars
<1> QED BY <1>4, <1>5, <1>6 DEF RunnerInv

LEMMA PollInv ==
  ASSUME RunnerInv, PollOutput \/ PollTimeout
  PROVE  RunnerInv'
<1>1. /\ host = "poll"
      /\ UNCHANGED <<argument, polls, buffered, returnBuffer, guestVars, pipes>>
      /\ \/ /\ stdoutPipe # <<>> /\ host' = "read"
            /\ hup' = ~ PipesOpen /\ noticed' = (noticed \/ ResultIn(stdoutPipe))
         \/ /\ stdoutPipe = <<>> /\ ~ PipesOpen /\ host' = "returned"
            /\ hup' = ~ PipesOpen /\ noticed' = (noticed \/ ResultIn(stdoutPipe))
         \/ host' = "reap" /\ UNCHANGED <<hup, noticed>>
  BY DEF PollOutput, PollTimeout
<1>2. MessageInv' /\ InputInv'
  BY <1>1, SameMessages DEF guestVars, pipes
<1>3. RunnerTypeOK'
  <2>1. hup' \in BOOLEAN
    BY <1>1 DEF RunnerInv, RunnerTypeOK, PipesOpen
  <2>2. noticed' \in BOOLEAN
    BY <1>1 DEF RunnerInv, RunnerTypeOK, ResultIn
  <2> QED BY <1>1, <2>1, <2>2 DEF RunnerInv, RunnerTypeOK, guestVars, pipes
<1>4. stdoutPipe = <<>> => ~ ResultIn(stdoutPipe)
  BY DEF ResultIn
<1>5. noticed => returnBuffer # NoValue
  BY <1>1 DEF RunnerInv, HostInv
<1>6. ResultIn(stdoutPipe)' = ResultIn(stdoutPipe)
  BY <1>1 DEF pipes
<1>7. hup' => guest' \in {"closed", "ended", "killed"}
  BY <1>1 DEF RunnerInv, HostInv, PipesOpen, guestVars
<1>8. noticed' => returnBuffer' # NoValue \/ (host' = "read" /\ ResultIn(stdoutPipe)')
  BY <1>1, <1>4, <1>5, <1>6
<1>9. NoRunaway'
  BY <1>1 DEF NoRunaway, PipesOpen, guestVars
<1>10. HostInv'
  BY <1>1, <1>7, <1>8, <1>9 DEF RunnerInv, HostInv, Busy, guestVars, pipes
<1> QED BY <1>2, <1>3, <1>10 DEF RunnerInv

LEMMA ReapInv ==
  ASSUME RunnerInv, Reap
  PROVE  RunnerInv'
<1>1. /\ host = "reap"
      /\ UNCHANGED <<argument, hup, buffered, returnBuffer, noticed, script, input, pipes>>
      /\ \/ guest = "ended" /\ host' = "returned" /\ polls' = polls /\ guest' = guest
         \/ polls' = polls + 1 /\ polls + 1 = Polls /\ host' = "returned" /\ guest' = "killed"
         \/ polls' = polls + 1 /\ polls + 1 # Polls /\ host' = "poll" /\ guest' = guest
  BY DEF Reap
<1>2. polls \in 0 .. Polls /\ polls < Polls /\ guest # "none" /\ Polls \in Nat
  BY <1>1, RunnerAssumption DEF RunnerInv, RunnerTypeOK, HostInv, Busy
<1>3. MessageInv' /\ InputInv'
  BY <1>1, <1>2, SameMessages DEF pipes
<1>4. polls' \in 0 .. Polls /\ (host' = "poll" => polls' < Polls)
  BY <1>1, <1>2
<1>5. RunnerTypeOK'
  BY <1>1, <1>4 DEF RunnerInv, RunnerTypeOK, pipes
<1>6. HostInv'
  BY <1>1, <1>4 DEF RunnerInv, HostInv, Busy, NoRunaway, pipes
<1> QED BY <1>3, <1>5, <1>6 DEF RunnerInv

\* The host is idle or the process is dead: the guest may go on.
LEMMA HostLeaves ==
  ASSUME RunnerInv, host' \in {"idle", "dead"}, host # "read",
         UNCHANGED <<argument, polls, hup, buffered, returnBuffer, noticed, guestVars, pipes>>
  PROVE  RunnerInv'
<1>1. MessageInv' /\ InputInv'
  BY SameMessages DEF guestVars, pipes
<1>2. RunnerTypeOK'
  BY DEF RunnerInv, RunnerTypeOK, guestVars, pipes
<1>3. HostInv'
  BY DEF RunnerInv, HostInv, Busy, NoRunaway, guestVars, pipes
<1> QED BY <1>1, <1>2, <1>3 DEF RunnerInv

\* What is read: the whole stream, from the pipe or with the half in the buffer.
LEMMA ReadStream ==
  ASSUME RunnerInv, ExecuteCallback \/ ReadRest, NEW call \in Calls
  PROVE  /\ argument \in Argument /\ stdoutPipe' = <<>>
         /\ UNCHANGED <<argument, polls, hup, noticed, guestVars>>
         /\ Half(call) =>
              /\ buffered = <<>> /\ stdoutPipe = <<Part(argument, call, "head")>>
              /\ ReadFrom(<<Part(argument, call, "head")>>)
         /\ Complete(call) =>
              \/ ReadFrom(<<Part(argument, call, "whole")>>)
              \/ ReadFrom(<<Part(argument, call, "head"), Part(argument, call, "rest")>>)
<1> DEFINE W == Part(argument, call, "whole")
           H == Part(argument, call, "head")
           R == Part(argument, call, "rest")
<1>1. CASE ExecuteCallback
  <2>1. host = "read" /\ buffered = <<>> /\ stdoutPipe # <<>>
    BY <1>1 DEF ExecuteCallback, RunnerInv, HostInv
  <2>2. ReadFrom(stdoutPipe)
    BY <1>1, <2>1 DEF ExecuteCallback
  <2>3. stdoutPipe' = <<>> /\ UNCHANGED <<argument, polls, hup, noticed, guestVars>>
    BY <2>1, <2>2 DEF ReadFrom
  <2>4. <<H>> # <<>>
    BY One
  <2>5. argument \in Argument
    BY <2>1 DEF RunnerInv, HostInv, InputInv, Busy
  <2> QED BY <2>1, <2>2, <2>3, <2>4, <2>5 DEF Half, Complete
<1>2. CASE ReadRest
  <2>1. host = "rest" /\ buffered # <<>> /\ stdoutPipe # <<>>
    BY <1>2 DEF ReadRest, RunnerInv, HostInv
  <2>2. ReadFrom(buffered \o stdoutPipe)
    BY <1>2 DEF ReadRest
  <2>3. stdoutPipe' = <<>> /\ UNCHANGED <<argument, polls, hup, noticed, guestVars>>
    BY <2>1, <2>2 DEF ReadFrom
  <2>4. ~ Half(call)
    BY <2>1 DEF Half
  <2>5. Complete(call) => buffered \o stdoutPipe = <<H, R>>
    <3>1. <<H>> \o <<R>> = <<H, R>>
      BY Two
    <3> QED BY <2>1, <3>1 DEF Complete
  <2>6. argument \in Argument
    BY <2>1 DEF RunnerInv, HostInv, InputInv, Busy
  <2> QED BY <2>2, <2>3, <2>4, <2>5, <2>6
<1> QED BY <1>1, <1>2

\* A complete message is handled, whole or in two parts.
LEMMA ReadComplete ==
  ASSUME RunnerInv, ExecuteCallback \/ ReadRest, NEW call \in Calls, Complete(call)
  PROVE  /\ buffered' = <<>>
         /\ \E message : /\ message.call = call
                         /\ message.value = IF call = "DONE" THEN argument ELSE NoValue
                         /\ Handle(message)
<1> DEFINE W == Part(argument, call, "whole")
           H == Part(argument, call, "head")
           R == Part(argument, call, "rest")
<1>1. argument \in Argument /\ (ReadFrom(<<W>>) \/ ReadFrom(<<H, R>>))
  BY ReadStream
<1>2. /\ W.part = "whole" /\ H.part = "head"
      /\ W.call = call /\ R.call = call
      /\ W.value = (IF call = "DONE" THEN argument ELSE NoValue)
      /\ R.value = (IF call = "DONE" THEN argument ELSE NoValue)
  BY <1>1, PartType
<1> HIDE DEF W, H, R
<1>3. CASE ReadFrom(<<W>>)
  <2>1. MessageLength(<<W>>) = 1 /\ Len(<<W>>) = 1 /\ <<W>>[1] = W
    BY <1>2, One DEF MessageLength
  <2>2. SubSeq(<<W>>, 1 + 1, 1) = <<>>
    BY One
  <2>3. Handle(W) /\ buffered' = <<>>
    BY <1>3, <2>1, <2>2 DEF ReadFrom
  <2> QED BY <1>2, <2>3
<1>4. CASE ReadFrom(<<H, R>>)
  <2>1. Head(<<H, R>>) = H /\ Len(<<H, R>>) = 2 /\ <<H, R>>[2] = R
    BY Two
  <2>2. MessageLength(<<H, R>>) = 2
    BY <1>2, <2>1 DEF MessageLength
  <2>3. SubSeq(<<H, R>>, 2 + 1, 2) = <<>>
    BY Two
  <2>4. Handle(R) /\ buffered' = <<>>
    BY <1>4, <2>1, <2>2, <2>3 DEF ReadFrom
  <2> QED BY <1>2, <2>4
<1> QED BY <1>1, <1>3, <1>4

\* Half a message stays in the buffer of the host.
LEMMA ReadHalf ==
  ASSUME RunnerInv, ExecuteCallback \/ ReadRest, NEW call \in Calls, Half(call)
  PROVE  /\ buffered = <<>> /\ stdoutPipe = <<Part(argument, call, "head")>>
         /\ buffered' = stdoutPipe /\ host' = "rest"
         /\ UNCHANGED <<returnBuffer, stdinPipe>>
<1> DEFINE H == Part(argument, call, "head")
<1>1. argument \in Argument /\ buffered = <<>> /\ stdoutPipe = <<H>> /\ ReadFrom(<<H>>)
  BY ReadStream
<1>2. H.part = "head"
  BY <1>1, PartType
<1> HIDE DEF H
<1>3. MessageLength(<<H>>) = 2 /\ Len(<<H>>) = 1
  BY <1>2, One DEF MessageLength
<1> QED BY <1>1, <1>3 DEF ReadFrom, H

\* The guest is told only what it waits for, and the result is kept.
LEMMA ReadCompleteInv ==
  ASSUME RunnerInv, ExecuteCallback \/ ReadRest, NEW call \in Calls, Complete(call),
         \/ guest = "await" /\ stdinPipe = <<>> /\ call # "DONE"
         \/ guest = "run" /\ call = "DONE"
         \/ guest \in {"closed", "ended"}
  PROVE  RunnerInv'
<1>1. /\ argument \in Argument /\ stdoutPipe' = <<>> /\ buffered' = <<>>
      /\ UNCHANGED <<argument, polls, hup, noticed, guestVars>>
  BY ReadStream, ReadComplete
<1>2. PICK message : /\ message.call = call
                     /\ message.value = (IF call = "DONE" THEN argument ELSE NoValue)
                     /\ Handle(message)
  BY ReadComplete
<1>3. host \in {"read", "rest"}
  BY DEF ExecuteCallback, ReadRest
<1>4. returnBuffer' = IF call = "DONE" THEN argument ELSE returnBuffer
  BY <1>2 DEF Handle
<1>5. /\ host' \in {"dead", "reap", "returned"}
      /\ host' = "returned" => hup
      /\ stdinPipe' = stdinPipe \/ (guest = "await" /\ stdinPipe' = <<NoValue>>)
  <2>1. ASSUME host' # "dead", call \in Callback PROVE guest = "await"
    <3>1. PipesOpen
      BY <1>2, <2>1 DEF Handle
    <3> QED BY <2>1, <3>1, RunnerAssumption DEF PipesOpen
  <2>2. /\ host' \in {"dead", "reap", "returned"} /\ (host' = "returned" => hup)
        /\ \/ stdinPipe' = stdinPipe
           \/ host' # "dead" /\ call \in Callback /\ stdinPipe' = Append(stdinPipe, NoValue)
    BY <1>2 DEF Handle
  <2> QED BY <2>1, <2>2, One
<1>6. RunnerTypeOK'
  <2>1. <<NoValue>> \in Seq(Argument \cup {NoValue}) /\ <<>> \in Seq(Chunk)
    OBVIOUS
  <2> QED BY <1>1, <1>4, <1>5, <2>1 DEF RunnerInv, RunnerTypeOK, guestVars
<1>7. MessageInv'
  <2>1. Empty' /\ guest' # "write" /\ guest' # "killed"
    BY <1>1 DEF Empty, guestVars
  <2> QED BY <2>1 DEF MessageInv
<1>8. InputInv'
  BY <1>1, <1>5 DEF RunnerInv, InputInv, guestVars
<1>9. noticed => returnBuffer' # NoValue
  <2>1. CASE returnBuffer # NoValue
    BY <1>1, <1>4, <2>1, RunnerAssumption
  <2>2. CASE ResultIn(stdoutPipe)
    <3>1. \A i \in DOMAIN stdoutPipe : stdoutPipe[i].call = call
      <4> DEFINE W == Part(argument, call, "whole")
                 H == Part(argument, call, "head")
                 R == Part(argument, call, "rest")
      <4>1. W.call = call /\ H.call = call /\ R.call = call
        BY <1>1, PartType
      <4>2. stdoutPipe = <<W>> \/ stdoutPipe = <<H, R>> \/ stdoutPipe = <<R>>
        BY DEF Complete
      <4> HIDE DEF W, H, R
      <4>3. CASE stdoutPipe = <<W>>
        <5>1. DOMAIN stdoutPipe = {1} /\ stdoutPipe[1] = W
          BY <4>3, One
        <5> QED BY <4>1, <5>1
      <4>4. CASE stdoutPipe = <<R>>
        <5>1. DOMAIN stdoutPipe = {1} /\ stdoutPipe[1] = R
          BY <4>4, One
        <5> QED BY <4>1, <5>1
      <4>5. CASE stdoutPipe = <<H, R>>
        <5>1. DOMAIN stdoutPipe = {1, 2} /\ stdoutPipe[1] = H /\ stdoutPipe[2] = R
          BY <4>5, Two
        <5> QED BY <4>1, <5>1
      <4> QED BY <4>2, <4>3, <4>4, <4>5
    <3>2. call = "DONE"
      BY <2>2, <3>1 DEF ResultIn
    <3> QED BY <1>1, <1>4, <3>2, RunnerAssumption
  <2> QED BY <2>1, <2>2 DEF RunnerInv, HostInv
<1>10. HostInv'
  BY <1>1, <1>3, <1>4, <1>5, <1>9 DEF RunnerInv, HostInv, Busy, NoRunaway, guestVars
<1> QED BY <1>6, <1>7, <1>8, <1>10 DEF RunnerInv

LEMMA ReadHalfInv ==
  ASSUME RunnerInv, ExecuteCallback \/ ReadRest, NEW call \in Calls, Half(call),
         guest \in {"closed", "ended"} \/ (guest = "write" /\ call = Head(script))
  PROVE  RunnerInv'
<1> DEFINE H == Part(argument, call, "head")
<1>1. /\ argument \in Argument /\ stdoutPipe' = <<>>
      /\ UNCHANGED <<argument, polls, hup, noticed, guestVars>>
      /\ stdoutPipe = <<H>> /\ buffered' = <<H>> /\ host' = "rest"
      /\ UNCHANGED <<returnBuffer, stdinPipe>>
  BY ReadStream, ReadHalf
<1>2. host = "read"
  BY ReadHalf DEF ExecuteCallback, ReadRest, RunnerInv, HostInv
<1>3. H.part = "head" /\ H \in Chunk
  BY <1>1, PartType
<1>4. PICK c \in Calls : c = call
  OBVIOUS
<1>5. Half(c)'
  BY <1>1, <1>4 DEF Half
<1> HIDE DEF H
<1>6. RunnerTypeOK'
  <2>1. <<H>> \in Seq(Chunk) /\ <<>> \in Seq(Chunk)
    BY <1>3
  <2> QED BY <1>1, <2>1 DEF RunnerInv, RunnerTypeOK, guestVars
<1>7. MessageInv'
  BY <1>1, <1>4, <1>5 DEF RunnerInv, MessageInv, guestVars
<1>8. InputInv'
  BY <1>1 DEF RunnerInv, InputInv, guestVars
<1>9. ~ ResultIn(stdoutPipe)
  <2>1. DOMAIN stdoutPipe = {1} /\ stdoutPipe[1] = H
    BY <1>1, One
  <2> QED BY <1>3, <2>1 DEF ResultIn
<1>10. HostInv'
  <2>1. buffered' # <<>>
    BY <1>1, One
  <2> QED BY <1>1, <1>2, <1>9, <2>1 DEF RunnerInv, HostInv, Busy, NoRunaway, guestVars
<1> QED BY <1>6, <1>7, <1>8, <1>10 DEF RunnerInv

LEMMA ReadInv ==
  ASSUME RunnerInv, ExecuteCallback \/ ReadRest
  PROVE  RunnerInv'
<1>1. ~ Empty /\ guest \in {"start", "run", "write", "await", "closed", "ended"}
  BY DEF ExecuteCallback, ReadRest, RunnerInv, RunnerTypeOK, HostInv, Busy, Empty
<1>2. CASE guest = "write"
  <2>1. Head(script) \in Calls /\ Half(Head(script))
    BY <1>2 DEF RunnerInv, MessageInv
  <2> QED BY <1>2, <2>1, ReadHalfInv
<1>3. CASE guest = "run"
  <2>1. Complete("DONE") /\ "DONE" \in Calls
    BY <1>1, <1>3 DEF RunnerInv, MessageInv, Calls
  <2> QED BY <1>3, <2>1, ReadCompleteInv
<1>4. CASE guest = "await"
  <2>1. PICK call \in FuncName : stdinPipe = <<>> /\ Complete(call)
    BY <1>1, <1>4 DEF RunnerInv, MessageInv
  <2>2. call \in Calls /\ call # "DONE"
    BY RunnerAssumption DEF Calls
  <2> QED BY <1>4, <2>1, <2>2, ReadCompleteInv
<1>5. CASE guest \in {"closed", "ended"}
  <2>1. PICK call \in Calls : Half(call) \/ Complete(call)
    BY <1>1, <1>5 DEF RunnerInv, MessageInv
  <2> QED BY <1>5, <2>1, ReadHalfInv, ReadCompleteInv
<1>6. guest # "start"
  BY <1>1 DEF RunnerInv, MessageInv
<1> QED BY <1>1, <1>2, <1>3, <1>4, <1>5, <1>6

LEMMA HostStep ==
  ASSUME RunnerInv, Host
  PROVE  RunnerInv'
<1>1. CASE ReadEndOfFile
  BY <1>1, HostLeaves DEF ReadEndOfFile
<1> QED BY <1>1, WriteArgumentInv, PollInv, ReapInv, ReadInv DEF Host

-----------------------------------------------------------------------------
(***************************************************************************)
(* The application: a batch is processed with a function.                  *)
(***************************************************************************)
TaskInv ==
  /\ ~ processing => toProcess = {}
  /\ processing => executionBlock # NoValue

DfiInv == DfiTypeOK /\ RunnerInv /\ TaskInv

\* A new call starts from nothing.
LEMMA ForkInv ==
  ASSUME RunnerInv, NEW r \in Argument, NEW s \in Script, Fork(r, s)
  PROVE  RunnerInv'
<1>1. /\ host' = "argument" /\ argument' = r /\ polls' = 0 /\ hup' = FALSE
      /\ buffered' = <<>> /\ returnBuffer' = NoValue /\ noticed' = FALSE
      /\ guest' = "start" /\ script' = s /\ input' = NoValue
      /\ stdinPipe' = <<>> /\ stdoutPipe' = <<>>
  BY DEF Fork
<1>2. <<>> \in Seq(Chunk) /\ <<>> \in Seq(Argument \cup {NoValue})
  OBVIOUS
<1>3. Polls \in Nat \ {0}
  BY RunnerAssumption
<1>4. RunnerTypeOK'
  <2>1. 0 \in 0 .. Polls
    BY <1>3
  <2> QED BY <1>1, <1>2, <2>1 DEF RunnerTypeOK
<1>5. MessageInv'
  BY <1>1 DEF MessageInv, Empty
<1>6. InputInv'
  BY <1>1 DEF InputInv
<1>7. HostInv'
  BY <1>1, <1>3 DEF HostInv, Busy, NoRunaway
<1> QED BY <1>4, <1>5, <1>6, <1>7 DEF RunnerInv

\* No guest, as at the start.
LEMMA FreshRunner ==
  ASSUME host' = "idle", guest' = "none", argument' = NoValue, polls' = 0, hup' = FALSE,
         buffered' = <<>>, returnBuffer' = NoValue, noticed' = FALSE, script' = <<>>,
         input' = NoValue, stdinPipe' = <<>>, stdoutPipe' = <<>>
  PROVE  RunnerInv'
<1>1. <<>> \in Seq(Chunk) /\ <<>> \in Seq(Argument \cup {NoValue}) /\ <<>> \in Script
  BY DEF Script
<1>2. 0 \in 0 .. Polls
  BY RunnerAssumption
<1> QED BY <1>1, <1>2 DEF RunnerInv, RunnerTypeOK, MessageInv, Empty, InputInv, HostInv,
           Busy, NoRunaway

LEMMA DfiInit == Init => DfiInv
<1> SUFFICES ASSUME Init PROVE DfiInv
  OBVIOUS
<1>1. RunnerInv
  <2>1. <<>> \in Seq(Chunk) /\ <<>> \in Seq(Argument \cup {NoValue}) /\ <<>> \in Script
    BY DEF Script
  <2>2. 0 \in 0 .. Polls
    BY RunnerAssumption
  <2> QED BY <2>1, <2>2 DEF Init, RunnerInit, RunnerInv, RunnerTypeOK, MessageInv, Empty,
             InputInv, HostInv, Busy, NoRunaway
<1>2. DfiTypeOK
  <2>1. filteredRecords \in [Record -> Byte \cup {NoValue}]
    BY DEF Init, NoResults
  <2>2. doneItems \in [Output -> SUBSET Record] /\ processed \in [Output -> SUBSET Record]
    BY DEF Init
  <2>3. restarts \in 0 .. MaxRestarts
    BY ApplicationAssumption DEF Init
  <2>4. /\ created = {} /\ confirmed = {} /\ waitingRecords = {} /\ toProcess = {}
        /\ executionBlock = NoValue /\ processing = FALSE /\ retry = FALSE
    BY DEF Init
  <2> QED BY <1>1, <2>1, <2>2, <2>3, <2>4 DEF RunnerInv, DfiTypeOK
<1>3. TaskInv
  BY DEF Init, TaskInv
<1> QED BY <1>1, <1>2, <1>3 DEF DfiInv

\* A byte of the result of a call goes to the record the call is about.
LEMMA TakeResultInv ==
  ASSUME DfiInv, TakeResult
  PROVE  DfiInv'
<1>1. /\ host = "returned"
      /\ UNCHANGED <<argument, polls, hup, buffered, returnBuffer, noticed, guestVars, pipes,
                     ledgerVars, waitingRecords, executionBlock, processing, retry>>
      /\ \/ host' = "dead" /\ UNCHANGED <<toProcess, filteredRecords>>
         \/ /\ host' = "idle" /\ returnBuffer # NoValue
            /\ toProcess' = toProcess \ {argument}
            /\ \E byte \in FirstByte[returnBuffer] :
                 filteredRecords' = [filteredRecords EXCEPT ![argument] = byte]
  BY DEF TakeResult
<1>2. RunnerInv'
  BY <1>1, HostLeaves DEF DfiInv
<1>3. /\ filteredRecords \in [Record -> Byte \cup {NoValue}]
      /\ returnBuffer \in Record \cup {NoValue}
  BY ApplicationAssumption DEF DfiInv, DfiTypeOK, RunnerInv, RunnerTypeOK
<1>4. filteredRecords' \in [Record -> Byte \cup {NoValue}]
  <2>1. ASSUME NEW a \in Record, NEW byte \in FirstByte[a] PROVE byte \in Byte
    BY <2>1, ApplicationAssumption
  <2> QED BY <1>1, <1>3, <2>1
<1>5. DfiTypeOK'
  BY <1>1, <1>2, <1>4 DEF DfiInv, DfiTypeOK, RunnerInv, ledgerVars
<1>6. TaskInv'
  BY <1>1 DEF DfiInv, TaskInv
<1> QED BY <1>2, <1>5, <1>6 DEF DfiInv

LEMMA ProcessRecordInv ==
  ASSUME DfiInv, NEW r \in toProcess, ProcessRecord(r)
  PROVE  DfiInv'
<1>1. processing /\ host = "idle" /\ UNCHANGED appVars
  BY DEF ProcessRecord
<1>2. RunnerInv'
  <2>1. CASE /\ host' = "dead"
             /\ UNCHANGED <<argument, polls, hup, buffered, returnBuffer, noticed, guestVars, pipes>>
    BY <1>1, <2>1, HostLeaves DEF DfiInv
  <2>2. ASSUME NEW s \in Behaviour[executionBlock], Fork(r, s) PROVE RunnerInv'
    <3>1. executionBlock \in Code /\ Behaviour \in [Code -> SUBSET Script]
      BY <1>1, ApplicationAssumption DEF DfiInv, DfiTypeOK, TaskInv
    <3>2. s \in Script
      BY <3>1
    <3>3. r \in Argument
      BY ApplicationAssumption DEF DfiInv, DfiTypeOK
    <3> QED BY <2>2, <3>2, <3>3, ForkInv DEF DfiInv
  <2> QED BY <2>1, <2>2 DEF ProcessRecord
<1>3. DfiTypeOK'
  BY <1>1, <1>2 DEF DfiInv, DfiTypeOK, RunnerInv, appVars, ledgerVars, taskVars
<1>4. TaskInv'
  BY <1>1 DEF DfiInv, TaskInv, appVars, ledgerVars, taskVars
<1> QED BY <1>2, <1>3, <1>4 DEF DfiInv

LEMMA RestartInv ==
  ASSUME DfiInv, Restart
  PROVE  DfiInv'
<1>1. RunnerInv'
  BY FreshRunner DEF Restart
<1>2. /\ waitingRecords' = {} /\ executionBlock' = NoValue /\ processing' = FALSE
      /\ toProcess' = {} /\ filteredRecords' = NoResults /\ retry' = FALSE
      /\ restarts' = restarts + 1 /\ restarts < MaxRestarts
      /\ UNCHANGED <<created, confirmed, doneItems, processed>>
  BY DEF Restart
<1>3. filteredRecords' \in [Record -> Byte \cup {NoValue}]
  BY <1>2 DEF NoResults
<1>4. restarts' \in 0 .. MaxRestarts
  BY <1>2, ApplicationAssumption DEF DfiInv, DfiTypeOK
<1>5. DfiTypeOK'
  BY <1>1, <1>2, <1>3, <1>4 DEF DfiInv, DfiTypeOK, RunnerInv
<1>6. TaskInv'
  BY <1>2 DEF TaskInv
<1> QED BY <1>1, <1>5, <1>6 DEF DfiInv

\* The steps of the application that leave host and guest alone.
LEMMA ApplicationInv ==
  ASSUME DfiInv, UNCHANGED runnerVars,
         \/ \E r \in Record : AddRecord(r) \/ OnRecordAppConfirmed(r)
         \/ \E S \in SUBSET waitingRecords : PickRecords(S)
         \/ \E o \in Output : CreateOutput(o)
         \/ CreateOutputFails
  PROVE  DfiInv'
<1>1. RunnerInv'
  BY DEF DfiInv, RunnerInv, RunnerTypeOK, MessageInv, Empty, Half, Complete, InputInv,
         HostInv, Busy, NoRunaway, ResultIn, runnerVars, hostVars, guestVars, pipes
<1>2. ASSUME NEW r \in Record, AddRecord(r) PROVE DfiTypeOK' /\ TaskInv'
  BY <1>1, <1>2 DEF AddRecord, DfiInv, DfiTypeOK, RunnerInv, TaskInv,
     taskVars
<1>3. ASSUME NEW r \in Record, OnRecordAppConfirmed(r) PROVE DfiTypeOK' /\ TaskInv'
  <2>1. /\ confirmed' = confirmed \cup {r} /\ UNCHANGED <<created, doneItems, processed, restarts>>
        /\ executionBlock' = (IF r \in Code THEN r ELSE executionBlock)
        /\ UNCHANGED <<processing, toProcess, filteredRecords, retry>>
        /\ ~ processing
    BY <1>3 DEF OnRecordAppConfirmed, Idle, taskVars
  <2>2. toProcess = {}
    BY <2>1 DEF DfiInv, TaskInv
  <2>3. waitingRecords' \subseteq confirmed' \ (Code \cup Output)
    <3>1. waitingRecords \subseteq confirmed \ (Code \cup Output)
      BY DEF DfiInv, DfiTypeOK
    <3>2. CASE r \in Code
      BY <1>3, <2>1, <3>1, <3>2 DEF OnRecordAppConfirmed
    <3>3. CASE r \notin Code /\ r \in Output
      BY <1>3, <2>1, <3>1, <3>3 DEF OnRecordAppConfirmed, IsOutput
    <3>4. CASE r \notin Code /\ r \notin Output
      BY <1>3, <2>1, <3>1, <3>4 DEF OnRecordAppConfirmed, IsOutput
    <3> QED BY <3>2, <3>3, <3>4
  <2>4. DfiTypeOK'
    BY <1>1, <2>1, <2>2, <2>3 DEF DfiInv, DfiTypeOK, RunnerInv
  <2>5. TaskInv'
    BY <2>1 DEF DfiInv, TaskInv
  <2> QED BY <2>4, <2>5
<1>4. ASSUME NEW S \in SUBSET waitingRecords, PickRecords(S) PROVE DfiTypeOK' /\ TaskInv'
  <2>1. /\ executionBlock # NoValue /\ processing' = TRUE /\ toProcess' = S
        /\ filteredRecords' = NoResults
        /\ UNCHANGED <<created, confirmed, doneItems, processed, restarts,
                       waitingRecords, executionBlock, retry>>
    BY <1>4 DEF PickRecords, ledgerVars
  <2>2. filteredRecords' \in [Record -> Byte \cup {NoValue}]
    BY <2>1 DEF NoResults
  <2>3. DfiTypeOK'
    BY <1>1, <2>1, <2>2 DEF DfiInv, DfiTypeOK, RunnerInv
  <2>4. TaskInv'
    BY <2>1 DEF TaskInv
  <2> QED BY <2>3, <2>4
<1>5. ASSUME NEW o \in Output, CreateOutput(o) PROVE DfiTypeOK' /\ TaskInv'
  <2>1. /\ created' = created \cup {o} /\ processing' = FALSE /\ toProcess = {}
        /\ doneItems' = [doneItems EXCEPT ![o] = {}]
        /\ processed' = [processed EXCEPT ![o] = Filtered]
        /\ UNCHANGED <<confirmed, restarts, waitingRecords, executionBlock,
                       toProcess, filteredRecords, retry>>
    BY <1>5 DEF CreateOutput, OutputItems
  <2>2. /\ doneItems' \in [Output -> SUBSET Record]
        /\ processed' \in [Output -> SUBSET Record]
        /\ created' \subseteq Record
    BY <2>1, ApplicationAssumption DEF DfiInv, DfiTypeOK, Filtered
  <2>3. DfiTypeOK'
    BY <1>1, <2>1, <2>2 DEF DfiInv, DfiTypeOK, RunnerInv
  <2>4. TaskInv'
    BY <2>1 DEF DfiInv, TaskInv
  <2> QED BY <2>3, <2>4
<1>6. CASE CreateOutputFails
  BY <1>1, <1>6 DEF CreateOutputFails, DfiInv, DfiTypeOK, RunnerInv, TaskInv, ledgerVars
<1> QED BY <1>1, <1>2, <1>3, <1>4, <1>5, <1>6 DEF DfiInv

LEMMA DfiStep ==
  ASSUME DfiInv, [Next]_vars
  PROVE  DfiInv'
<1>1. ASSUME RunnerInv', UNCHANGED appVars PROVE DfiInv'
  BY <1>1 DEF DfiInv, DfiTypeOK, RunnerInv, TaskInv, appVars,
     ledgerVars, taskVars
<1>2. CASE (Host \/ Guest) /\ UNCHANGED appVars
  BY <1>1, <1>2, HostStep, GuestStep DEF DfiInv
<1>3. CASE \E r \in toProcess : ProcessRecord(r)
  BY <1>3, ProcessRecordInv
<1>4. CASE TakeResult
  BY <1>4, TakeResultInv
<1>5. CASE RetryOutput
  <2>1. /\ host = "idle" /\ host' \in {"idle", "dead"} /\ retry' = FALSE
        /\ UNCHANGED <<argument, polls, hup, buffered, returnBuffer, noticed, guestVars, pipes,
                       ledgerVars, waitingRecords, executionBlock, processing, toProcess,
                       filteredRecords>>
    BY <1>5 DEF RetryOutput, Idle
  <2>2. RunnerInv'
    BY <2>1, HostLeaves DEF DfiInv
  <2>3. DfiTypeOK' /\ TaskInv'
    BY <2>1, <2>2 DEF DfiInv, DfiTypeOK, RunnerInv, TaskInv,
       ledgerVars
  <2> QED BY <2>2, <2>3 DEF DfiInv
<1>6. CASE Restart
  BY <1>6, RestartInv
<1>7. CASE \/ \E r \in Record : AddRecord(r) \/ OnRecordAppConfirmed(r)
           \/ \E S \in SUBSET waitingRecords : PickRecords(S)
           \/ \E o \in Output : CreateOutput(o)
           \/ CreateOutputFails
  <2>1. UNCHANGED runnerVars
    BY <1>7 DEF AddRecord, OnRecordAppConfirmed, PickRecords, CreateOutput, CreateOutputFails
  <2> QED BY <1>7, <2>1, ApplicationInv
<1>8. CASE UNCHANGED vars
  <2>1. RunnerInv'
    BY <1>8 DEF DfiInv, RunnerInv, RunnerTypeOK, MessageInv, Empty, Half, Complete, InputInv,
       HostInv, Busy, NoRunaway, ResultIn, vars, runnerVars, hostVars, guestVars, pipes
  <2> QED BY <1>1, <1>8, <2>1 DEF vars
<1> QED BY <1>2, <1>3, <1>4, <1>5, <1>6, <1>7, <1>8 DEF Next, Process

THEOREM DfiInvariant == Spec => []DfiInv
  BY DfiInit, DfiStep, PTL DEF Spec

\* Types: what a guest writes, whenever it is stopped, leaves the host in a
\* state the code provides for.
THEOREM DfiTypeCorrect == Spec => []DfiTypeOK
<1>1. DfiInv => DfiTypeOK
  BY DEF DfiInv
<1> QED BY <1>1, DfiInvariant, PTL

\* When the host polls, nothing is left in its stdio buffer: a guest has one
\* message on its way at most, and waits for the answer before it sends more.
THEOREM NothingOverlookedAlways == Spec => []NothingOverlooked
<1>1. DfiInv => NothingOverlooked
  BY DEF DfiInv, RunnerInv, HostInv, NothingOverlooked
<1> QED BY <1>1, DfiInvariant, PTL

\* A result that is in the pipe when the host polls is returned, also when the
\* guest has closed its end or has ended by then.
THEOREM NoticedResultReturnedAlways == Spec => []NoticedResultReturned
<1>1. DfiInv => NoticedResultReturned
  BY DEF DfiInv, RunnerInv, HostInv, NoticedResultReturned
<1> QED BY <1>1, DfiInvariant, PTL

\* When a call returns, its guest is done or was killed.
THEOREM NoRunawayAlways == Spec => []NoRunaway
<1>1. DfiInv => NoRunaway
  BY DEF DfiInv, RunnerInv, HostInv
<1> QED BY <1>1, DfiInvariant, PTL

-----------------------------------------------------------------------------
(***************************************************************************)
(* Why a batch ends: each step of the host's thread leaves less to do.     *)
(***************************************************************************)
CallInv == host \notin {"idle", "dead"} => processing /\ argument \in toProcess

AdvanceInv == DfiInv /\ CallInv

\* A step of the host is one place on in its call, or a poll further.
LEMMA HostMoves ==
  ASSUME RunnerInv, Host
  PROVE  /\ host \notin {"idle", "dead", "returned"} /\ argument' = argument
         /\ host' # "idle"
         /\ polls \in 0 .. Polls /\ polls < Polls /\ polls' \in 0 .. Polls
         /\ \/ host' = "dead"
            \/ polls' = polls /\ host = "argument" /\ host' = "poll"
            \/ polls' = polls /\ host = "poll" /\ host' \in {"read", "reap", "returned"}
            \/ polls' = polls /\ host = "read" /\ host' \in {"rest", "reap", "returned"}
            \/ polls' = polls /\ host = "rest" /\ host' \in {"reap", "returned"}
            \/ polls' \in {polls, polls + 1} /\ host = "reap" /\ host' = "returned"
            \/ polls' = polls + 1 /\ host = "reap" /\ host' = "poll"
<1> DEFINE Moves ==
      /\ host \notin {"idle", "dead", "returned"} /\ argument' = argument /\ host' # "idle"
      /\ polls' \in {polls, polls + 1}
      /\ \/ host' = "dead"
         \/ polls' = polls /\ host = "argument" /\ host' = "poll"
         \/ polls' = polls /\ host = "poll" /\ host' \in {"read", "reap", "returned"}
         \/ polls' = polls /\ host = "read" /\ host' \in {"rest", "reap", "returned"}
         \/ polls' = polls /\ host = "rest" /\ host' \in {"reap", "returned"}
         \/ polls' \in {polls, polls + 1} /\ host = "reap" /\ host' = "returned"
         \/ polls' = polls + 1 /\ host = "reap" /\ host' = "poll"
<1>1. ASSUME WriteArgument PROVE Moves
  BY <1>1 DEF WriteArgument
<1>2. ASSUME PollOutput \/ PollTimeout PROVE Moves
  BY <1>2 DEF PollOutput, PollTimeout
<1>3. ASSUME ExecuteCallback PROVE Moves
  <2>1. host = "read" /\ \E stream : ReadFrom(stream)
    BY <1>3 DEF ExecuteCallback
  <2>2. /\ argument' = argument /\ polls' = polls
        /\ host' \in {"rest", "dead", "returned", "reap"}
    BY <2>1 DEF ReadFrom, Handle
  <2> QED BY <2>1, <2>2
<1>4. ASSUME ReadRest PROVE Moves
  <2>1. host = "rest" /\ stdoutPipe # <<>> /\ ReadFrom(buffered \o stdoutPipe)
    BY <1>4 DEF ReadRest
  <2>2. buffered \in Seq(Chunk) /\ stdoutPipe \in Seq(Chunk) /\ buffered # <<>>
    BY <2>1 DEF RunnerInv, RunnerTypeOK, HostInv
  <2>3. Len(buffered) \in Nat \ {0} /\ Len(stdoutPipe) \in Nat \ {0}
    BY <2>1, <2>2, LenProperties, EmptySeq
  <2>4. Len(buffered \o stdoutPipe) = Len(buffered) + Len(stdoutPipe)
    BY <2>2, ConcatProperties
  <2>5. MessageLength(buffered \o stdoutPipe) \in {1, 2}
    BY DEF MessageLength
  <2>6. Len(buffered \o stdoutPipe) >= MessageLength(buffered \o stdoutPipe)
    BY <2>3, <2>4, <2>5
  <2>7. /\ argument' = argument /\ polls' = polls
        /\ host' \in {"dead", "returned", "reap"}
    BY <2>1, <2>6 DEF ReadFrom, Handle
  <2> QED BY <2>1, <2>7
<1>5. ASSUME ReadEndOfFile PROVE Moves
  BY <1>5 DEF ReadEndOfFile
<1>6. ASSUME Reap PROVE Moves
  BY <1>6 DEF Reap
<1>7. Moves
  BY <1>1, <1>2, <1>3, <1>4, <1>5, <1>6 DEF Host
<1>8. polls \in 0 .. Polls /\ Polls \in Nat
  BY RunnerAssumption DEF RunnerInv, RunnerTypeOK
<1>9. polls < Polls
  BY <1>7 DEF RunnerInv, RunnerTypeOK, HostInv, Busy
<1>10. polls' \in 0 .. Polls
  BY <1>7, <1>8, <1>9
<1> QED BY <1>7, <1>8, <1>9, <1>10

LEMMA HostAdvances ==
  ASSUME RunnerInv, Host, host' # "dead"
  PROVE  CallLeft' \in 0 .. CallLeft - 1
<1>1. PICK p \in Int, q \in Int, N \in Int : p = polls /\ q = polls' /\ N = Polls
  BY HostMoves, RunnerAssumption
<1>2. q \in 0 .. N /\ p \in 0 .. N /\ p < N
  BY <1>1, HostMoves
<1>3. CASE host = "argument"
  <2>1. host' = "poll" /\ q = p
    BY <1>1, <1>3, HostMoves
  <2>2. CallLeft = 5 * (N - p) + 6 /\ CallLeft' = 5 * (N - q) + 5
    BY <1>1, <1>3, <2>1 DEF CallLeft
  <2> QED BY <1>2, <2>1, <2>2
<1>4. CASE host = "poll"
  <2>1. host' \in {"read", "reap", "returned"} /\ q = p
    BY <1>1, <1>4, HostMoves
  <2>2. CallLeft = 5 * (N - p) + 5
    BY <1>1, <1>4 DEF CallLeft
  <2>3. \E k \in 1 .. 4 : CallLeft' = 5 * (N - q) + k
    BY <1>1, <2>1 DEF CallLeft
  <2> QED BY <1>2, <2>1, <2>2, <2>3
<1>5. CASE host = "read"
  <2>1. host' \in {"rest", "reap", "returned"} /\ q = p
    BY <1>1, <1>5, HostMoves
  <2>2. CallLeft = 5 * (N - p) + 4
    BY <1>1, <1>5 DEF CallLeft
  <2>3. \E k \in 1 .. 3 : CallLeft' = 5 * (N - q) + k
    BY <1>1, <2>1 DEF CallLeft
  <2> QED BY <1>2, <2>1, <2>2, <2>3
<1>6. CASE host = "rest"
  <2>1. host' \in {"reap", "returned"} /\ q = p
    BY <1>1, <1>6, HostMoves
  <2>2. CallLeft = 5 * (N - p) + 3
    BY <1>1, <1>6 DEF CallLeft
  <2>3. \E k \in 1 .. 2 : CallLeft' = 5 * (N - q) + k
    BY <1>1, <2>1 DEF CallLeft
  <2> QED BY <1>2, <2>1, <2>2, <2>3
<1>7. CASE host = "reap"
  <2>1. (host' = "returned" /\ q \in {p, p + 1}) \/ (host' = "poll" /\ q = p + 1)
    BY <1>1, <1>7, HostMoves
  <2>2. CallLeft = 5 * (N - p) + 2
    BY <1>1, <1>7 DEF CallLeft
  <2>3. (host' = "returned" /\ CallLeft' = 5 * (N - q) + 1)
        \/ (host' = "poll" /\ CallLeft' = 5 * (N - q) + 5)
    BY <1>1, <2>1 DEF CallLeft
  <2> QED BY <1>2, <2>1, <2>2, <2>3
<1> QED BY <1>3, <1>4, <1>5, <1>6, <1>7, HostMoves

LEMMA CallStep ==
  ASSUME AdvanceInv, [Next]_vars
  PROVE  CallInv'
<1>1. CASE Host /\ UNCHANGED appVars
  BY <1>1, HostMoves DEF AdvanceInv, DfiInv, CallInv, appVars, taskVars
<1>2. CASE Guest /\ UNCHANGED appVars
  BY <1>2 DEF AdvanceInv, CallInv, appVars, taskVars, hostVars, Guest, GuestFails, GuestReads,
     GuestWrites, GuestWritesRest, GuestGetsAnswer, GuestTraps, GuestCloses, GuestExits
<1>3. ASSUME NEW r \in toProcess, ProcessRecord(r) PROVE CallInv'
  BY <1>3 DEF CallInv, ProcessRecord, Fork, appVars, taskVars
<1>4. CASE TakeResult
  BY <1>4 DEF CallInv, TakeResult
<1>5. CASE RetryOutput
  BY <1>5 DEF CallInv, RetryOutput
<1>6. CASE Restart
  BY <1>6 DEF CallInv, Restart
<1>7. CASE \/ \E r \in Record : AddRecord(r) \/ OnRecordAppConfirmed(r)
           \/ \E S \in SUBSET waitingRecords : PickRecords(S)
           \/ \E o \in Output : CreateOutput(o)
           \/ CreateOutputFails
  <2>1. host' = "idle"
    BY <1>7 DEF AddRecord, OnRecordAppConfirmed, PickRecords, CreateOutput, CreateOutputFails,
       Idle, runnerVars, hostVars
  <2> QED BY <2>1 DEF CallInv
<1>8. CASE UNCHANGED vars
  BY <1>8 DEF AdvanceInv, CallInv, vars, runnerVars, hostVars, appVars, taskVars
<1> QED BY <1>1, <1>2, <1>3, <1>4, <1>5, <1>6, <1>7, <1>8 DEF Next, Process

LEMMA BatchStep ==
  ASSUME AdvanceInv, Next, processing, ~ Guest
  PROVE  \/ ~ processing' \/ host' = "dead"
         \/ toProcess' \subseteq toProcess /\ toProcess' # toProcess
         \/ toProcess' = toProcess /\ CallLeft' \in 0 .. CallLeft - 1
<1>1. CASE Host /\ UNCHANGED appVars
  BY <1>1, HostAdvances DEF AdvanceInv, DfiInv, appVars, taskVars
<1>2. ASSUME NEW r \in toProcess, ProcessRecord(r), host' # "dead"
      PROVE  toProcess' = toProcess /\ CallLeft' \in 0 .. CallLeft - 1
  <2>1. host = "idle" /\ host' = "argument" /\ polls' = 0 /\ toProcess' = toProcess
    BY <1>2 DEF ProcessRecord, Fork, appVars, taskVars
  <2>2. PICK N \in Nat : N = Polls
    BY RunnerAssumption
  <2>3. CallLeft = 5 * N + 7 /\ CallLeft' = 5 * (N - 0) + 6
    BY <2>1, <2>2 DEF CallLeft
  <2> QED BY <2>1, <2>3
<1>3. CASE TakeResult
  BY <1>3 DEF AdvanceInv, CallInv, TakeResult
<1>4. CASE (\E o \in Output : CreateOutput(o)) \/ CreateOutputFails
  BY <1>4 DEF CreateOutput, CreateOutputFails
<1>5. CASE Restart
  BY <1>5 DEF Restart
<1>6. CASE RetryOutput \/ \E r \in Record : AddRecord(r) \/ OnRecordAppConfirmed(r)
  BY <1>6 DEF RetryOutput, AddRecord, OnRecordAppConfirmed, Idle
<1>7. CASE \E S \in SUBSET waitingRecords : PickRecords(S)
  BY <1>7 DEF PickRecords, Idle
<1> QED BY <1>1, <1>2, <1>3, <1>4, <1>5, <1>6, <1>7 DEF Next, Process

\* Each step of the host's thread leaves fewer records to process or less of
\* the call in progress, which is at most 5 * Polls + 7 steps: what BatchEnds
\* rests on, for every number of polls and whatever the guests do.
THEOREM BatchAdvancesAlways == Spec => BatchAdvances
<1>1. Init => AdvanceInv
  BY DfiInit DEF AdvanceInv, CallInv, Init, RunnerInit
<1>2. AdvanceInv /\ [Next]_vars => AdvanceInv'
  BY DfiStep, CallStep DEF AdvanceInv
<1>3. AdvanceInv /\ [Next]_vars =>
        [processing /\ ~ Guest =>
           \/ ~ processing' \/ host' = "dead"
           \/ toProcess' \subseteq toProcess /\ toProcess' # toProcess
           \/ toProcess' = toProcess /\ CallLeft' \in 0 .. CallLeft - 1]_vars
  BY BatchStep
<1> QED BY <1>1, <1>2, <1>3, PTL DEF Spec, BatchAdvances
=============================================================================
