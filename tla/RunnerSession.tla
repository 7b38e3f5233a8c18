---------------------------- MODULE RunnerSession ----------------------------
(***************************************************************************)
(* One language runner from its start to its end: startRunner and          *)
(* AcceptConnection (runner.go, conn/connectionHandler.go), the requests   *)
(* executeSpecs makes of it (conn/network.go) and testRunner.kill.         *)
(*                                                                         *)
(* Request 1 asks for the step names, the next ones validate steps; these  *)
(* have a timeout and a goroutine each, and the goroutine goes on reading  *)
(* the connection when the timeout has passed.  The requests of the        *)
(* execution have no timeout; they are made when every validation has      *)
(* succeeded and the execution is not in parallel: streams start runners   *)
(* of their own, and nothing stops this one.  Nothing looks at the ids     *)
(* that messages carry: an answer is that of whoever reads it.  It arrives *)
(* in Parts pieces, and one read takes what is there.                      *)
(***************************************************************************)
EXTENDS Integers, Sequences

CONSTANTS
  Validations,  \* StepValidateRequests
  Executions,   \* requests of the execution
  Parts         \* pieces an answer arrives in

ASSUME SessionAssumption ==
  Validations \in Nat /\ Executions \in Nat \ {0} /\ Parts \in Nat \ {0}

Request == 1..(1 + Validations + Executions)
Timed(k) == k <= 1 + Validations

\* The type of request k, and of its answer.
Kind(k) == IF k = 1 THEN "names" ELSE IF Timed(k) THEN "validation" ELSE "execution"

VARIABLES
  pc,        \* main goroutine; "exited" when os.Exit has ended Gauge without kill
  process,   \* the runner: "running", "exited", "failed" (exit code), "signalled"
  waiter,    \* goroutine of waitAndGetErrorMessage: "waiting", "sending", "done"
  acceptor,  \* goroutine of AcceptConnection: "accepting", "sending", "done"
  link,      \* the connection: "none", "open", "closed" (by Gauge)
  current,   \* the request the main goroutine is at
  reader,    \* per request, the goroutine that writes it and reads the answer
  given,     \* per request, the answer it was given; 0 for none or an error
  valid,     \* no validation has failed
  inbox,     \* requests the runner has not answered
  wire,      \* <<request, piece>> on the way to Gauge
  lock,      \* the reader inside conn.Read; 0 for none
  buffer     \* per request, the pieces its reader has

vars == <<pc, process, waiter, acceptor, link, current, reader, given, valid,
          inbox, wire, lock, buffer>>
exchange == <<current, reader, given, valid, inbox, wire, lock, buffer>>

Init ==
  /\ pc = "connecting"
  /\ process = "running" /\ waiter = "waiting" /\ acceptor = "accepting"
  /\ link = "none"
  /\ current = 1
  /\ reader = [k \in Request |-> "none"]
  /\ given = [k \in Request |-> 0]
  /\ valid = TRUE
  /\ inbox = <<>> /\ wire = <<>> /\ lock = 0
  /\ buffer = [k \in Request |-> <<>>]

-----------------------------------------------------------------------------
(* The start.  Channels are unbuffered: who sends waits for the select, and *)
(* for ever when the select is over.                                        *)

\* cmd.Wait returns in its goroutine; only now is ProcessState set.
Reap ==
  /\ pc # "exited" /\ waiter = "waiting" /\ process # "running"
  /\ waiter' = IF process = "exited" THEN "done" ELSE "sending"
  /\ UNCHANGED <<pc, process, acceptor, link, exchange>>

Accept ==
  /\ pc # "exited" /\ acceptor = "accepting" /\ process = "running"
  /\ acceptor' = "sending"
  /\ UNCHANGED <<pc, process, waiter, link, exchange>>

Connected ==
  /\ pc = "connecting" /\ acceptor = "sending"
  /\ acceptor' = "done" /\ link' = "open" /\ pc' = "asking"
  /\ UNCHANGED <<process, waiter, exchange>>

\* A slip: a runner that did not connect is left to itself.
AbandonRunner == UNCHANGED process

\* Process.Kill; on a process that is gone it is an error nobody minds.
KillProcess == process' = IF process = "running" THEN "signalled" ELSE process

\* AcceptConnection returns an error: that of the runner, or the timeout.
RunnerDied ==
  /\ pc = "connecting" /\ waiter = "sending"
  /\ waiter' = "done" /\ KillProcess /\ pc' = "ended"
  /\ UNCHANGED <<acceptor, link, exchange>>

ConnectTimeout ==
  /\ pc = "connecting"
  /\ KillProcess /\ pc' = "ended"
  /\ UNCHANGED <<waiter, acceptor, link, exchange>>

-----------------------------------------------------------------------------
(* Requests.                                                               *)

\* GetResponseForMessageWithTimeout, or GetResponseForGaugeMessage.
Ask ==
  /\ pc = "asking" /\ reader[current] = "none"
  /\ reader' = [reader EXCEPT ![current] = "writing"]
  /\ UNCHANGED <<pc, process, waiter, acceptor, link, current, given, valid, inbox, wire, lock,
                 buffer>>

WriteRequest(k) ==
  /\ reader[k] = "writing" /\ link = "open"
  /\ reader' = [reader EXCEPT ![k] = "reading"]
  /\ inbox' = Append(inbox, k)
  /\ UNCHANGED <<pc, process, waiter, acceptor, link, current, given, valid, wire, lock, buffer>>

FailToWrite(k) ==
  /\ reader[k] = "writing" /\ (link = "closed" \/ process # "running")
  /\ reader' = [reader EXCEPT ![k] = "error"]
  /\ UNCHANGED <<pc, process, waiter, acceptor, link, current, given, valid, inbox, wire, lock,
                 buffer>>

\* conn.Read lets one goroutine in at a time.
EnterRead(k) ==
  /\ reader[k] = "reading" /\ lock = 0 /\ link = "open"
  /\ lock' = k
  /\ UNCHANGED <<pc, process, waiter, acceptor, link, current, reader, given, valid, inbox,
                 wire, buffer>>

\* readResponse has a message when the pieces begin one and are enough; what it
\* has read after it is dropped.  Pieces of two messages do not unmarshal.
Complete(pieces) == Len(pieces) >= Parts /\ pieces[1][2] = 1
Intact(pieces) == \A n \in 1..Parts : pieces[n] = <<pieces[1][1], n>>

\* readResponse reads what has arrived.  Pieces that begin inside a message make
\* no sense: it fails on them, or takes them for a part and reads on.
Read(k) ==
  /\ lock = k /\ link = "open" /\ wire # <<>>
  /\ \E n \in 1..Len(wire) :
       LET pieces == buffer[k] \o SubSeq(wire, 1, n)
       IN  /\ wire' = SubSeq(wire, n + 1, Len(wire))
           /\ buffer' = [buffer EXCEPT ![k] = pieces]
           /\ reader' = [reader EXCEPT ![k] = IF ~Complete(pieces) THEN @
                                               ELSE IF Intact(pieces) THEN "answered" ELSE "error"]
  /\ lock' = 0
  /\ UNCHANGED <<pc, process, waiter, acceptor, link, current, given, valid, inbox>>

Misread(k) ==
  /\ reader[k] = "reading" /\ lock # k
  /\ buffer[k] # <<>> /\ buffer[k][1][2] # 1
  /\ reader' = [reader EXCEPT ![k] = "error"]
  /\ UNCHANGED <<pc, process, waiter, acceptor, link, current, given, valid, inbox, wire, lock,
                 buffer>>

\* A read error closes the connection, which ends every other read.
FailToRead(k) ==
  /\ reader[k] = "reading" /\ lock \in {0, k}
  /\ link = "closed" \/ (process # "running" /\ wire = <<>>)
  /\ link' = "closed" /\ lock' = 0
  /\ reader' = [reader EXCEPT ![k] = "error"]
  /\ UNCHANGED <<pc, process, waiter, acceptor, current, given, valid, inbox, wire, buffer>>

\* A slip: a validation that gets no answer is not held against the step.
PassesUnanswered(k, answer, accepted) ==
  answer = 0 \/ (Kind(answer) = Kind(k) /\ accepted)

\* validateStep: the runner accepts the step, in an answer of the right type.
Passes(k, answer, accepted) == answer # 0 /\ Kind(answer) = Kind(k) /\ accepted

\* The execution follows if all validations have passed.
LastRequest(stillValid) == IF stillValid THEN 1 + Validations + Executions ELSE 1 + Validations

\* What is done with a request's answer: only a validation's matters
\* here.  Then comes the next request, or the end, or an execution in
\* parallel, which makes no request of this runner.
Conclude(answer, accepted) ==
  LET stillValid == valid /\ (Kind(current) = "validation" => Passes(current, answer, accepted))
      last == current = LastRequest(stillValid)
  IN  /\ given' = [given EXCEPT ![current] = answer]
      /\ valid' = stillValid
      /\ \/ last /\ pc' = "stopping" /\ current' = current
         \/ ~last /\ pc' = "asking" /\ current' = current + 1
         \/ stillValid /\ current = 1 + Validations /\ pc' = "parallel" /\ current' = current

\* The main goroutine gets the answer, or the error.
TakeAnswer ==
  /\ pc = "asking" /\ reader[current] \in {"answered", "error"}
  /\ \E accepted \in BOOLEAN :
       Conclude(IF reader[current] = "answered" THEN buffer[current][1][1] ELSE 0, accepted)
  /\ UNCHANGED <<process, waiter, acceptor, link, reader, inbox, wire, lock, buffer>>

\* A timed request times out; its goroutine goes on.  The timeout is seconds:
\* it does not pass before the goroutine has written and waits for its turn to
\* read, or for something to read.
RequestTimeout ==
  /\ pc = "asking" /\ Timed(current)
  /\ reader[current] = "reading" /\ lock # 0
  /\ Conclude(0, FALSE)
  /\ UNCHANGED <<process, waiter, acceptor, link, reader, inbox, wire, lock, buffer>>

-----------------------------------------------------------------------------
(* os.Exit.                                                                *)

\* The requests before the first specification: SuiteDataStoreInit and
\* ExecutionStarting.
SuiteStart == 1 + Validations + 2

\* Gauge is gone, and the connection with it; the runner is not told.
Exit ==
  /\ pc' = "exited" /\ link' = "closed"
  /\ UNCHANGED <<process, waiter, acceptor, exchange>>

\* handleCriticalError in getDataTableRows: --table-rows does not fit the table
\* of a specification that is about to be executed.
RejectTableRows ==
  /\ pc = "asking" /\ current > SuiteStart /\ reader[current] = "none"
  /\ Exit

\* An execution in parallel is over, and so is executeSpecs.
FinishParallel == pc = "parallel" /\ Exit

-----------------------------------------------------------------------------
(* testRunner.kill.                                                        *)

\* A process that a signal has ended counts as running (ProcessState.Exited).
IsStillRunning == waiter = "waiting" \/ process = "signalled"

\* The kill request is sent; or there is nothing to do.
BeginKill ==
  /\ pc = "stopping"
  /\ pc' = IF IsStillRunning THEN "killing" ELSE "ended"
  /\ UNCHANGED <<process, waiter, acceptor, link, exchange>>

SeeExit ==
  /\ pc = "killing" /\ ~IsStillRunning
  /\ pc' = "ended" /\ link' = "closed"
  /\ UNCHANGED <<process, waiter, acceptor, exchange>>

KillTimeout ==
  /\ pc = "killing"
  /\ pc' = "ended" /\ link' = "closed" /\ KillProcess
  /\ UNCHANGED <<waiter, acceptor, exchange>>

-----------------------------------------------------------------------------
(* The runner answers its requests one after the other, or ends.           *)

Answer ==
  /\ process = "running" /\ inbox # <<>>
  /\ inbox' = Tail(inbox)
  /\ wire' = wire \o [n \in 1..Parts |-> <<Head(inbox), n>>]
  /\ UNCHANGED <<pc, process, waiter, acceptor, link, current, reader, given, valid, lock,
                 buffer>>

RunnerEnds(how) ==
  /\ process = "running" /\ pc # "ended" /\ process' = how
  /\ UNCHANGED <<pc, waiter, acceptor, link, exchange>>

MainStep ==
  \/ Connected \/ RunnerDied \/ ConnectTimeout
  \/ Ask \/ TakeAnswer \/ RequestTimeout
  \/ RejectTableRows \/ FinishParallel
  \/ BeginKill \/ SeeExit \/ KillTimeout

ReaderStep(k) ==
  /\ pc # "exited"
  /\ \/ WriteRequest(k) \/ FailToWrite(k) \/ EnterRead(k) \/ Read(k) \/ Misread(k)
     \/ FailToRead(k)

Next ==
  \/ MainStep \/ Reap \/ Accept \/ Answer
  \/ \E k \in Request : ReaderStep(k)
  \/ \E how \in {"exited", "failed", "signalled"} : RunnerEnds(how)

Spec == Init /\ [][Next]_vars

\* Goroutines are scheduled and timers fire; the runner answers what it has
\* received as long as it runs, which the executor relies on.
FairSpec ==
  /\ Spec
  /\ WF_vars(MainStep) /\ WF_vars(Reap) /\ WF_vars(Answer)
  /\ \A k \in Request : WF_vars(ReaderStep(k))
-----------------------------------------------------------------------------
(* Properties.                                                             *)

Piece == Request \X (1..Parts)

\* The types of the state.
TypeOK ==
  /\ pc \in {"connecting", "asking", "parallel", "stopping", "killing", "ended", "exited"}
  /\ process \in {"running", "exited", "failed", "signalled"}
  /\ waiter \in {"waiting", "sending", "done"}
  /\ acceptor \in {"accepting", "sending", "done"}
  /\ link \in {"none", "open", "closed"}
  /\ current \in Request
  /\ reader \in [Request -> {"none", "writing", "reading", "answered", "error"}]
  /\ given \in [Request -> Request \cup {0}]
  /\ valid \in BOOLEAN
  /\ inbox \in Seq(Request) /\ wire \in Seq(Piece)
  /\ lock \in Request \cup {0}
  /\ buffer \in [Request -> Seq(Piece)]

\* A hook or a step that is given an answer is given its own.
ExecutionGetsItsAnswers == \A k \in Request : ~Timed(k) => given[k] \in {0, k}

\* A session that does not connect, that does not validate, or whose execution
\* comes to its end leaves no runner: the process has ended or was sent a signal.
\* Gauge leaves one only where it exits without kill, which it does for nothing
\* but --table-rows that do not fit, in the middle of a suite, and at the end of
\* an execution in parallel, which has made no request of the runner.
NoRunnerLeft ==
  /\ pc = "ended" => process # "running"
  /\ pc = "exited" => valid /\ (current = 1 + Validations \/ current > SuiteStart)

\* The session ends: with a runner that does not connect, that dies, that
\* answers late, or that does not stop when it is told to.
Terminates == <>(pc \in {"ended", "exited"})
=============================================================================
