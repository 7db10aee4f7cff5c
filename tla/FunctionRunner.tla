--------------------------- MODULE FunctionRunner ---------------------------
(***************************************************************************)
(* DynamicFunctionRunner::runWasmPipeModule (dfi-app/dynamic-function-     *)
(* runner.cpp): the host forks a guest process that runs a WebAssembly     *)
(* module, gives it an argument over one pipe and polls another for its    *)
(* messages.  A message is a call of a function of the host, which is      *)
(* answered, or the result.  The host waits for Polls polls at most.       *)
(*                                                                         *)
(* Two processes: the actions of the host are the steps of run_wasi_module *)
(* between two system calls that may block or whose result depends on the  *)
(* guest; those of the guest are what the modules of dfi-app do (call_host *)
(* and return_to_host of c-filter1/main.c and c-test1/main.c).             *)
(***************************************************************************)
EXTENDS Naturals, Sequences

CONSTANTS
  Argument,   \* arguments of a call; the result of a call is that of its argument
  NoValue,    \* an empty buffer
  FuncName,   \* functions a guest may call
  Callback,   \* those set with setCallback
  EmptyBlock, \* calls with a block of no bytes, in the message or in the answer
  Polls       \* 200 in the code

ASSUME RunnerAssumption ==
  /\ NoValue \notin Argument
  /\ Callback \subseteq FuncName /\ EmptyBlock \subseteq FuncName
  /\ "DONE" \notin FuncName
  /\ Polls \in Nat \ {0}

\* What a guest does: the functions it calls one after the other, then "DONE"
\* when it returns a result and "spin" when it never ends.  A guest returns its
\* result at the end of main and sends nothing after it.
Script ==
  {s \in Seq(FuncName \cup {"DONE", "spin"}) :
     \A i \in DOMAIN s : s[i] = "DONE" => i = Len(s)}

VARIABLES
  host,          \* control state of run_wasi_module
  argument,      \* of the call in progress
  polls,         \* i
  hup,           \* the last poll had POLLHUP
  buffered,      \* what the stdio buffer of stdout_pipe holds
  returnBuffer,  \* return_buffer
  noticed,       \* history: a poll saw the whole result in the pipe
  guest,         \* control state of the guest process
  script,        \* what it has left to do
  input,         \* the argument it has read
  stdinPipe,     \* host to guest
  stdoutPipe     \* guest to host

hostVars   == <<host, argument, polls, hup, buffered, returnBuffer, noticed>>
guestVars  == <<guest, script, input>>
pipes      == <<stdinPipe, stdoutPipe>>
runnerVars == <<hostVars, guestVars, pipes>>

\* A message reaches the pipe in one write, or, when it is longer than the
\* stdio buffer of the guest, in two.
Chunk == [call : FuncName \cup {"DONE"}, part : {"whole", "head", "rest"},
          value : Argument \cup {NoValue}]

RunnerTypeOK ==
  /\ host \in {"idle", "argument", "poll", "read", "rest", "reap", "returned", "dead"}
  /\ argument \in Argument \cup {NoValue}
  /\ polls \in 0 .. Polls
  /\ hup \in BOOLEAN
  /\ buffered \in Seq(Chunk)
  /\ returnBuffer \in Argument \cup {NoValue}
  /\ noticed \in BOOLEAN
  /\ guest \in {"none", "start", "run", "write", "await", "closed", "ended", "killed"}
  /\ script \in Script
  /\ input \in Argument \cup {NoValue}
  /\ stdinPipe \in Seq(Argument \cup {NoValue})
  /\ stdoutPipe \in Seq(Chunk)

RunnerInit ==
  /\ host = "idle"
  /\ argument = NoValue
  /\ polls = 0
  /\ hup = FALSE
  /\ buffered = <<>>
  /\ returnBuffer = NoValue
  /\ noticed = FALSE
  /\ guest = "none"
  /\ script = <<>>
  /\ input = NoValue
  /\ stdinPipe = <<>>
  /\ stdoutPipe = <<>>

-----------------------------------------------------------------------------
(***************************************************************************)
(* The host.  An assertion that fails, a write to a pipe nobody reads and  *)
(* exit(1) in compile end the whole process: host = "dead".                *)
(***************************************************************************)

\* pipe(), pipe(), fork(); return_buffer is a new vector.
Fork(a, s) ==
  /\ host' = "argument"
  /\ argument' = a
  /\ polls' = 0
  /\ hup' = FALSE
  /\ buffered' = <<>>
  /\ returnBuffer' = NoValue
  /\ noticed' = FALSE
  /\ guest' = "start"
  /\ script' = s
  /\ input' = NoValue
  /\ stdinPipe' = <<>>
  /\ stdoutPipe' = <<>>

\* The guest's ends of the pipes are open.
PipesOpen == guest \notin {"closed", "ended"}

WriteArgument ==
  /\ host = "argument"
  /\ IF ~ PipesOpen
       THEN host' = "dead" /\ UNCHANGED stdinPipe
       ELSE host' = "poll" /\ stdinPipe' = Append(stdinPipe, argument)
  /\ UNCHANGED <<argument, polls, hup, buffered, returnBuffer, noticed, guestVars, stdoutPipe>>

ResultIn(pipe) == \E i \in DOMAIN pipe : pipe[i].call = "DONE" /\ pipe[i].part # "head"

\* Mutant of PollOutput: the guest has closed its end, so there is nothing to do.
PollHangupFirst ==
  /\ host = "poll"
  /\ stdoutPipe # <<>> \/ ~ PipesOpen
  /\ host' = IF PipesOpen THEN "read" ELSE "returned"
  /\ hup' = ~ PipesOpen
  /\ noticed' = (noticed \/ ResultIn(stdoutPipe))
  /\ UNCHANGED <<argument, polls, buffered, returnBuffer, guestVars, pipes>>

\* poll() returns POLLIN, POLLHUP or both.
PollOutput ==
  /\ host = "poll"
  /\ stdoutPipe # <<>> \/ ~ PipesOpen
  /\ host' = IF stdoutPipe # <<>> THEN "read" ELSE "returned"
  /\ hup' = ~ PipesOpen
  /\ noticed' = (noticed \/ ResultIn(stdoutPipe))
  /\ UNCHANGED <<argument, polls, buffered, returnBuffer, guestVars, pipes>>

\* poll() returns 0 after ten milliseconds.
PollTimeout ==
  /\ host = "poll"
  /\ stdoutPipe = <<>> /\ PipesOpen
  /\ host' = "reap"
  /\ UNCHANGED <<argument, polls, hup, buffered, returnBuffer, noticed, guestVars, pipes>>

(***************************************************************************)
(* executeCallback: one message is read.  fread takes all the pipe holds   *)
(* into its buffer, so what follows the message stays there, where poll    *)
(* does not see it.  A message that has arrived in part is waited for      *)
(* without a limit.                                                        *)
(***************************************************************************)
MessageLength(stream) ==
  IF Head(stream).part = "whole" THEN 1 ELSE 2

\* fread and fwrite of a block of no bytes return 0, and the assertion fails:
\* a result of no bytes ends the host as such a call does.
Handle(message) ==
  /\ returnBuffer' = IF message.call = "DONE" THEN message.value ELSE returnBuffer
  /\ IF message.call \in EmptyBlock \/ (message.call \in Callback /\ ~ PipesOpen)
       THEN host' = "dead" /\ UNCHANGED stdinPipe
       ELSE /\ host' = IF hup THEN "returned" ELSE "reap"
            /\ stdinPipe' = IF message.call \in Callback THEN Append(stdinPipe, NoValue)
                                                        ELSE stdinPipe

ReadFrom(stream) ==
  /\ stdoutPipe' = IF host = "read" /\ buffered # <<>> THEN stdoutPipe ELSE <<>>
  /\ IF Len(stream) >= MessageLength(stream)
       THEN /\ Handle(stream[MessageLength(stream)])
            /\ buffered' = SubSeq(stream, MessageLength(stream) + 1, Len(stream))
       ELSE /\ host' = "rest"
            /\ buffered' = stream
            /\ UNCHANGED <<returnBuffer, stdinPipe>>
  /\ UNCHANGED <<argument, polls, hup, noticed, guestVars>>

ExecuteCallback ==
  /\ host = "read"
  /\ ReadFrom(IF buffered # <<>> THEN buffered ELSE stdoutPipe)

ReadRest ==
  /\ host = "rest"
  /\ stdoutPipe # <<>>
  /\ ReadFrom(buffered \o stdoutPipe)

\* The guest ended in the middle of a message: the assertion fails.
ReadEndOfFile ==
  /\ host = "rest"
  /\ stdoutPipe = <<>> /\ ~ PipesOpen
  /\ host' = "dead"
  /\ UNCHANGED <<argument, polls, hup, buffered, returnBuffer, noticed, guestVars, pipes>>

\* Mutants of Reap: a guest that takes too long is left alone; only polls that
\* time out count.
ReapWithoutKill ==
  /\ host = "reap"
  /\ IF guest = "ended" \/ polls + 1 = Polls
       THEN host' = "returned" /\ UNCHANGED polls
       ELSE host' = "poll" /\ polls' = polls + 1
  /\ UNCHANGED <<argument, hup, buffered, returnBuffer, noticed, guestVars, pipes>>

ReapWithoutLimit ==
  /\ host = "reap"
  /\ host' = IF guest = "ended" THEN "returned" ELSE "poll"
  /\ UNCHANGED <<argument, polls, hup, buffered, returnBuffer, noticed, guestVars, pipes>>

\* waitpid(WNOHANG); after the last poll the guest is killed.
Reap ==
  /\ host = "reap"
  /\ IF guest = "ended"
       THEN host' = "returned" /\ UNCHANGED <<polls, guest>>
       ELSE /\ polls' = polls + 1
            /\ IF polls + 1 = Polls
                 THEN host' = "returned" /\ guest' = "killed"
                 ELSE host' = "poll" /\ UNCHANGED guest
  /\ UNCHANGED <<argument, hup, buffered, returnBuffer, noticed, script, input, pipes>>

Host ==
  \/ WriteArgument
  \/ PollOutput \/ PollTimeout
  \/ ExecuteCallback \/ ReadRest \/ ReadEndOfFile
  \/ Reap

-----------------------------------------------------------------------------
(***************************************************************************)
(* The guest process.                                                      *)
(***************************************************************************)

\* The module cannot be linked or has no entry: exit(1).
GuestFails ==
  /\ guest = "start"
  /\ guest' = "ended"
  /\ UNCHANGED <<hostVars, script, input, pipes>>

\* read_host_argument, at the start of main.
GuestReads ==
  /\ guest = "start"
  /\ stdinPipe # <<>>
  /\ guest' = "run"
  /\ input' = Head(stdinPipe)
  /\ stdinPipe' = Tail(stdinPipe)
  /\ UNCHANGED <<hostVars, script, stdoutPipe>>

\* Mutant of AfterMessage: the guest goes on without waiting.
AfterMessageGoOn ==
  /\ guest' = "run"
  /\ script' = Tail(script)

\* After its message a guest waits for the answer, unless it was the result.
AfterMessage ==
  /\ guest' = IF Head(script) = "DONE" THEN "run" ELSE "await"
  /\ script' = Tail(script)

Message(part) ==
  [call |-> Head(script), part |-> part,
   value |-> IF Head(script) = "DONE" THEN input ELSE NoValue]

\* call_host and return_to_host write a message.
GuestWrites ==
  /\ guest = "run"
  /\ script # <<>> /\ Head(script) # "spin"
  /\ \/ stdoutPipe' = Append(stdoutPipe, Message("whole")) /\ AfterMessage
     \/ /\ stdoutPipe' = Append(stdoutPipe, Message("head"))
        /\ guest' = "write"
        /\ UNCHANGED script
  /\ UNCHANGED <<hostVars, input, stdinPipe>>

GuestWritesRest ==
  /\ guest = "write"
  /\ stdoutPipe' = Append(stdoutPipe, Message("rest"))
  /\ AfterMessage
  /\ UNCHANGED <<hostVars, input, stdinPipe>>

GuestGetsAnswer ==
  /\ guest = "await"
  /\ stdinPipe # <<>>
  /\ guest' = "run"
  /\ stdinPipe' = Tail(stdinPipe)
  /\ UNCHANGED <<hostVars, script, input, stdoutPipe>>

\* The module traps: that is no error, so the pipes are closed before exit(0).
\* With an error it is exit(1), and the process may be killed from outside.
GuestTraps ==
  /\ guest \in {"start", "run", "write", "await"}
  /\ guest' \in {"closed", "ended"}
  /\ UNCHANGED <<hostVars, script, input, pipes>>

\* fclose(stdin), fclose(stdout), then exit(0).
GuestCloses ==
  /\ guest = "run"
  /\ script = <<>>
  /\ guest' = "closed"
  /\ UNCHANGED <<hostVars, script, input, pipes>>

GuestExits ==
  /\ guest = "closed"
  /\ guest' = "ended"
  /\ UNCHANGED <<hostVars, script, input, pipes>>

Guest ==
  \/ GuestFails \/ GuestReads
  \/ GuestWrites \/ GuestWritesRest \/ GuestGetsAnswer
  \/ GuestTraps \/ GuestCloses \/ GuestExits

-----------------------------------------------------------------------------
(***************************************************************************)
(* What the runner promises its caller.                                    *)
(***************************************************************************)

\* Host and guest take turns: when the host polls, nothing is left in its
\* stdio buffer, where poll would not see it (dynamic-function-runner.cpp:344,
\* 463).  It is the guest, waiting for the answer, that keeps this.
NothingOverlooked == host = "poll" => buffered = <<>>

\* A result that is in the pipe when the host polls is returned, also when
\* the guest has ended by then (dynamic-function-runner.cpp:345-351).
NoticedResultReturned == host = "returned" /\ noticed => returnBuffer # NoValue

\* When the call returns, its guest has closed its output, has ended or was
\* killed (dynamic-function-runner.cpp:358): none is left that could go on
\* working.
NoRunaway == host = "returned" => guest \in {"closed", "ended", "killed"}
=============================================================================
