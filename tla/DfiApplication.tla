--------------------------- MODULE DfiApplication ---------------------------
(***************************************************************************)
(* The application of dfi-app/dfi-ledger.cpp over a ledger: a confirmed    *)
(* code record is the function that is applied to confirmed data records,  *)
(* a few at a time, each in a guest process; the results go into an output *)
(* record, whose confirmation takes records from the waiting ones.         *)
(*                                                                         *)
(* All of it runs in the thread of the ledger's io_service: nothing is     *)
(* confirmed while records are processed.  Of the ledger only the order of *)
(* confirmations matters here, and it may be any.                          *)
(***************************************************************************)
EXTENDS FunctionRunner, FiniteSets

CONSTANTS
  Record,      \* names of records
  Code,        \* those with the identifier "dfi_filter1"
  Output,      \* those with an identifier "output...", of any peer
  Own,         \* records this peer may make
  Numeric,     \* records whose items are numbers
  Overlong,    \* those of them with more than three items
  FirstByte,   \* record -> the first byte of its result; when it has fewer than
               \* three items the function is given what was on the stack: any of these
  Invalid,     \* code records that do not compile
  Behaviour,   \* what the guest process of a code record may do
  Batch,       \* records processed at a time: 5 in the code
  MaxRestarts  \* bound: restarts of the process

Byte == 0 .. 255

ASSUME ApplicationAssumption ==
  /\ Argument = Record
  /\ Code \subseteq Record /\ Invalid \subseteq Code
  /\ Output \subseteq Record \ Code
  /\ Own \subseteq Record /\ Numeric \subseteq Record /\ Overlong \subseteq Numeric
  /\ FirstByte \in [Record -> (SUBSET Byte) \ {{}}] /\ NoValue \notin Byte
  /\ Behaviour \in [Code -> SUBSET Script]
  /\ Batch \in Nat \ {0}
  /\ MaxRestarts \in Nat

VARIABLES
  created,          \* records this peer has made
  confirmed,        \* records in the database of the ledger
  waitingRecords,
  executionBlock,   \* the code record it comes from; NoValue: not valid
  processing,       \* periodicProcessRecord runs
  toProcess,        \* records it has picked and not processed yet
  filteredRecords,  \* record -> what is kept of its result, NoValue if it has none
  retry,            \* createRecord is scheduled again
  doneItems,        \* output record -> the records it names
  processed,        \* history: output record -> the records processed for it
  restarts

ledgerVars == <<created, confirmed, doneItems, processed, restarts>>
taskVars   == <<processing, toProcess, filteredRecords, retry>>
appVars    == <<ledgerVars, waitingRecords, executionBlock, taskVars>>
vars       == <<runnerVars, appVars>>

NoResults == [r \in Record |-> NoValue]

DfiTypeOK ==
  /\ RunnerTypeOK
  /\ created \subseteq Record /\ confirmed \subseteq Record
  /\ waitingRecords \subseteq confirmed \ (Code \cup Output)
  /\ executionBlock \in (Code \cap confirmed) \cup {NoValue}
  /\ processing \in BOOLEAN /\ retry \in BOOLEAN
  /\ toProcess \subseteq waitingRecords
  /\ filteredRecords \in [Record -> Byte \cup {NoValue}]
  /\ doneItems \in [Output -> SUBSET Record]
  /\ processed \in [Output -> SUBSET Record]
  /\ restarts \in 0 .. MaxRestarts

Init ==
  /\ RunnerInit
  /\ created = {} /\ confirmed = {}
  /\ waitingRecords = {}
  /\ executionBlock = NoValue
  /\ processing = FALSE
  /\ toProcess = {}
  /\ filteredRecords = NoResults
  /\ retry = FALSE
  /\ doneItems = [o \in Output |-> {}]
  /\ processed = [o \in Output |-> {}]
  /\ restarts = 0

Idle == host = "idle" /\ ~ processing

\* periodicAddRecord, and addWasmRecord of peer test-a.
AddRecord(r) ==
  /\ Idle
  /\ r \in Own \ (created \cup Output)
  /\ created' = created \cup {r}
  /\ UNCHANGED <<runnerVars, confirmed, doneItems, processed, restarts,
                 waitingRecords, executionBlock, taskVars>>

\* Mutant of IsOutput: one character less than "output" has is compared.
IsOutputNever(r) == FALSE
IsOutput(r) == r \in Output

\* The callback set with setOnRecordAppConfirmed.
OnRecordAppConfirmed(r) ==
  /\ Idle
  /\ r \notin confirmed
  /\ r \in Own => r \in created
  /\ confirmed' = confirmed \cup {r}
  /\ executionBlock' = IF r \in Code THEN r ELSE executionBlock
  /\ waitingRecords' = CASE r \in Code -> waitingRecords
                         [] IsOutput(r) -> waitingRecords \ doneItems[r]
                         [] OTHER -> waitingRecords \cup {r}
  /\ UNCHANGED <<runnerVars, created, doneItems, processed, restarts, taskVars>>

\* periodicProcessRecord picks all waiting records, or Batch of them.
PickRecords(S) ==
  /\ Idle
  /\ executionBlock # NoValue
  /\ S # {}
  /\ IF Cardinality(waitingRecords) <= Batch THEN S = waitingRecords
                                             ELSE Cardinality(S) = Batch
  /\ processing' = TRUE
  /\ toProcess' = S
  /\ filteredRecords' = NoResults
  /\ UNCHANGED <<runnerVars, ledgerVars, waitingRecords, executionBlock, retry>>

\* processRecord: an item that is no number throws in stoi, which nothing
\* catches; code that does not compile ends the process.  Items after the third
\* are written past the end of "inputs": that may end the process too, here or
\* when the function returns.
ProcessRecord(r) ==
  /\ processing /\ host = "idle"
  /\ r \in toProcess
  /\ \/ /\ r \notin Numeric \ Overlong \/ executionBlock \in Invalid
        /\ host' = "dead"
        /\ UNCHANGED <<argument, polls, hup, buffered, returnBuffer, noticed, guestVars, pipes>>
     \/ /\ r \in Numeric /\ executionBlock \notin Invalid
        /\ \E s \in Behaviour[executionBlock] : Fork(r, s)
  /\ UNCHANGED appVars

\* The result is read through a pointer that is null when there is none, and
\* just its first byte, which becomes the number that is kept.
TakeResult ==
  /\ host = "returned"
  /\ \/ /\ returnBuffer = NoValue \/ argument \in Overlong
        /\ host' = "dead"
        /\ UNCHANGED <<toProcess, filteredRecords>>
     \/ /\ returnBuffer # NoValue
        /\ host' = "idle"
        /\ toProcess' = toProcess \ {argument}
        /\ \E byte \in FirstByte[returnBuffer] :
             filteredRecords' = [filteredRecords EXCEPT ![argument] = byte]
  /\ UNCHANGED <<argument, polls, hup, buffered, returnBuffer, noticed, guestVars, pipes,
                 ledgerVars, waitingRecords, executionBlock, processing, retry>>

Filtered == {r \in Record : filteredRecords[r] # NoValue}

\* The items of the output record: a block is built for each result and not
\* added to the record.
OutputItems(done) == {}

\* createRecord succeeds, or is scheduled again.
CreateOutput(o) ==
  /\ processing /\ host = "idle" /\ toProcess = {}
  /\ o \in (Output \cap Own) \ created
  /\ created' = created \cup {o}
  /\ doneItems' = [doneItems EXCEPT ![o] = OutputItems(Filtered)]
  /\ processed' = [processed EXCEPT ![o] = Filtered]
  /\ processing' = FALSE
  /\ UNCHANGED <<runnerVars, confirmed, restarts, waitingRecords, executionBlock,
                 toProcess, filteredRecords, retry>>

CreateOutputFails ==
  /\ processing /\ host = "idle" /\ toProcess = {}
  /\ retry' = TRUE
  /\ processing' = FALSE
  /\ UNCHANGED <<runnerVars, ledgerVars, waitingRecords, executionBlock,
                 toProcess, filteredRecords>>

\* The lambda captured the ledger and the record of a call that has returned:
\* what it does is undefined; it may end the process or nothing comes of it.
RetryOutput ==
  /\ Idle /\ retry
  /\ retry' = FALSE
  /\ host' \in {"idle", "dead"}
  /\ UNCHANGED <<argument, polls, hup, buffered, returnBuffer, noticed, guestVars, pipes,
                 ledgerVars, waitingRecords, executionBlock, processing, toProcess,
                 filteredRecords>>

\* The process ends, if it has not, and starts again: only the database is left.
Restart ==
  /\ restarts < MaxRestarts
  /\ restarts' = restarts + 1
  /\ host' = "idle" /\ guest' = "none"
  /\ argument' = NoValue /\ polls' = 0 /\ hup' = FALSE /\ buffered' = <<>>
  /\ returnBuffer' = NoValue /\ noticed' = FALSE
  /\ script' = <<>> /\ input' = NoValue
  /\ stdinPipe' = <<>> /\ stdoutPipe' = <<>>
  /\ waitingRecords' = {}
  /\ executionBlock' = NoValue
  /\ processing' = FALSE
  /\ toProcess' = {}
  /\ filteredRecords' = NoResults
  /\ retry' = FALSE
  /\ UNCHANGED <<created, confirmed, doneItems, processed>>

Process ==
  \/ \E r \in toProcess : ProcessRecord(r)
  \/ TakeResult
  \/ \E o \in Output : CreateOutput(o)
  \/ CreateOutputFails

Next ==
  \/ \E r \in Record : AddRecord(r) \/ OnRecordAppConfirmed(r)
  \/ \E S \in SUBSET waitingRecords : PickRecords(S)
  \/ Process
  \/ RetryOutput
  \/ Restart
  \/ Host /\ UNCHANGED appVars
  \/ Guest /\ UNCHANGED appVars

Spec == Init /\ [][Next]_vars

(***************************************************************************)
(* Fairness: the thread of the host goes on.  Nothing is asked of the      *)
(* guest: it may be as slow as it likes, stop anywhere or never end.       *)
(***************************************************************************)
FairSpec ==
  /\ Spec
  /\ WF_vars(Host /\ UNCHANGED appVars)
  /\ WF_vars(Process)

-----------------------------------------------------------------------------
\* Processing a batch comes to an end, with an output record or with the
\* process, unless a guest stops in the middle of a message: the limit of
\* dynamic-function-runner.cpp:342 ("2 second wait total") counts polls, and
\* the host then waits in fread (463-475), where nothing ends the wait.  The
\* thread is that of the ledger, which does nothing in the meantime.
BatchEnds ==
  []<>(~ processing \/ host = "dead") \/ <>[](host = "rest" /\ guest = "write")

\* What is left of a call for the host to do, at most: each of the polls left
\* takes it five steps.
CallLeft ==
  IF host = "idle" THEN 5 * Polls + 7
  ELSE 5 * (Polls - polls) +
         CASE host = "argument" -> 6 [] host = "poll" -> 5 [] host = "read" -> 4
           [] host = "rest" -> 3 [] host = "reap" -> 2 [] OTHER -> 1

\* Why a batch ends (dynamic-function-runner.cpp:342-358, dfi-ledger.cpp:74-86):
\* whatever the guest has written or does not write, each step of the thread
\* leaves fewer records to process or less of the call in progress, or ends it.
BatchAdvances ==
  [][processing /\ ~ Guest =>
       \/ ~ processing' \/ host' = "dead"
       \/ toProcess' \subseteq toProcess /\ toProcess' # toProcess
       \/ toProcess' = toProcess /\ CallLeft' \in 0 .. CallLeft - 1]_vars

\* dfi-ledger.cpp:88 "build output block", 135 "output block": a confirmed
\* output record takes the records it is the output of from the waiting ones.
ProcessedRecordsLeave ==
  \A o \in confirmed \cap Output : processed[o] \cap waitingRecords = {}
=============================================================================
