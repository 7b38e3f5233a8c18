------------------------- MODULE RunnerSession_proofs -------------------------
(***************************************************************************)
(* Theorems about RunnerSession for any number of requests and of pieces:  *)
(* no runner is left but where Gauge exits without kill, and with          *)
(* something to validate no hook or step is given the answer to another    *)
(* request.                                                                *)
(***************************************************************************)
EXTENDS RunnerSession, Framing, SequenceTheorems, TLAPS

-----------------------------------------------------------------------------
(* Types.                                                                  *)

\* What is read, and what stays on the wire.
LEMMA SplitSeq ==
  ASSUME NEW S, NEW s \in Seq(S), NEW n \in 1..Len(s)
  PROVE  /\ SubSeq(s, 1, n) \in Seq(S) /\ Len(SubSeq(s, 1, n)) = n
         /\ \A i \in 1..n : SubSeq(s, 1, n)[i] = s[i]
         /\ SubSeq(s, n + 1, Len(s)) \in Seq(S) /\ Len(SubSeq(s, n + 1, Len(s))) = Len(s) - n
         /\ \A i \in 1..(Len(s) - n) : SubSeq(s, n + 1, Len(s))[i] = s[n + i]
<1>1. Len(s) \in Nat /\ \A i \in 1..Len(s) : s[i] \in S
  BY LenProperties, ElementOfSeq
<1>2. \A i \in 1..n : s[i] \in S
  BY <1>1
<1>3. \A i \in (n + 1)..Len(s) : s[i] \in S
  BY <1>1
<1>4. /\ SubSeq(s, 1, n) \in Seq(S) /\ Len(SubSeq(s, 1, n)) = IF 1 <= n THEN n - 1 + 1 ELSE 0
      /\ \A i \in 1..(n - 1 + 1) : SubSeq(s, 1, n)[i] = s[1 + i - 1]
  BY <1>2, SubSeqProperties
<1> DEFINE rest == SubSeq(s, n + 1, Len(s))
<1>5. n + 1 \in Int /\ Len(s) \in Int
  BY <1>1
<1>6. /\ rest \in Seq(S)
      /\ Len(rest) = IF n + 1 <= Len(s) THEN Len(s) - (n + 1) + 1 ELSE 0
      /\ \A i \in 1..(Len(s) - (n + 1) + 1) : rest[i] = s[(n + 1) + i - 1]
  BY <1>3, <1>5, SubSeqProperties
<1> HIDE DEF rest
<1>7. Len(rest) = Len(s) - n /\ \A i \in 1..(Len(s) - n) : rest[i] = s[n + i]
  BY <1>1, <1>6
<1> QED BY <1>1, <1>4, <1>6, <1>7 DEF rest

LEMMA RequestFacts ==
  /\ Request \subseteq Nat \ {0}
  /\ 1 \in Request /\ 2 \in Request /\ 1 + Validations + Executions \in Request
  /\ \A k \in Request : k < 1 + Validations + Executions => k + 1 \in Request
BY SessionAssumption DEF Request

LEMMA TypeInit == Init => TypeOK
<1> SUFFICES ASSUME Init PROVE TypeOK
  OBVIOUS
<1>1. <<>> \in Seq(Request) /\ <<>> \in Seq(Piece)
  BY EmptySeq
<1>2. 1 \in Request
  BY RequestFacts
<1> QED BY <1>1, <1>2 DEF Init, TypeOK

\* After a validation has failed, the execution is not begun.
FailsBefore == ~valid => Timed(current)

\* An answer is made of what was read.
AnswersRead == \A k \in Request : reader[k] = "answered" => buffer[k] # <<>>

Types == TypeOK /\ FailsBefore /\ AnswersRead

LEMMA ConcludeType ==
  ASSUME Types, NEW answer \in Request \cup {0}, NEW accepted \in BOOLEAN,
         Conclude(answer, accepted)
  PROVE  /\ pc' \in {"asking", "parallel", "stopping"} /\ current' \in Request
         /\ given' \in [Request -> Request \cup {0}] /\ valid' \in BOOLEAN
         /\ FailsBefore'
<1> DEFINE stillValid == valid /\ (Kind(current) = "validation" => Passes(current, answer, accepted))
           last == current = LastRequest(stillValid)
<1>1. /\ given' = [given EXCEPT ![current] = answer]
      /\ valid' = stillValid
      /\ \/ last /\ pc' = "stopping" /\ current' = current
         \/ ~last /\ pc' = "asking" /\ current' = current + 1
         \/ stillValid /\ current = 1 + Validations /\ pc' = "parallel" /\ current' = current
  BY DEF Conclude
<1>2. current \in Request /\ given \in [Request -> Request \cup {0}] /\ valid \in BOOLEAN
  BY DEF Types, TypeOK
<1>3. stillValid \in BOOLEAN
  BY <1>2
<1>4. stillValid \/ current <= 1 + Validations
  BY <1>2, RequestFacts DEF Types, FailsBefore, Timed, Kind
<1>5. last \/ current + 1 \in Request
  <2>1. CASE stillValid
    BY <1>2, <2>1, RequestFacts, SessionAssumption DEF LastRequest, Request
  <2>2. CASE ~stillValid
    BY <1>2, <1>4, <2>2, RequestFacts, SessionAssumption DEF LastRequest, Request
  <2> QED BY <2>1, <2>2
<1>6. stillValid \/ current' <= 1 + Validations
  <2>1. CASE ~stillValid
    BY <1>1, <1>2, <1>4, <2>1, SessionAssumption DEF LastRequest, Request
  <2> QED BY <2>1
<1>7. valid' \in BOOLEAN
  BY <1>1, <1>3
<1>8. FailsBefore'
  <2>1. valid' \/ Timed(current')
    BY <1>1, <1>6 DEF Timed
  <2> QED BY <2>1 DEF FailsBefore, Timed
<1> HIDE DEF stillValid, last
<1> QED BY <1>1, <1>2, <1>5, <1>7, <1>8

LEMMA ReadType ==
  ASSUME Types, NEW k \in Request, Read(k)
  PROVE  Types'
<1>1. wire \in Seq(Piece) /\ buffer \in [Request -> Seq(Piece)]
  BY DEF Types, TypeOK
<1>2. PICK n \in 1..Len(wire) :
        LET pieces == buffer[k] \o SubSeq(wire, 1, n)
        IN  /\ wire' = SubSeq(wire, n + 1, Len(wire))
            /\ buffer' = [buffer EXCEPT ![k] = pieces]
            /\ reader' = [reader EXCEPT ![k] = IF ~Complete(pieces) THEN @
                                                ELSE IF Intact(pieces) THEN "answered" ELSE "error"]
  BY DEF Read
<1>3. wire' \in Seq(Piece) /\ SubSeq(wire, 1, n) \in Seq(Piece)
  BY <1>1, <1>2, SplitSeq
<1>4. buffer[k] \o SubSeq(wire, 1, n) \in Seq(Piece)
  BY <1>1, <1>3, ConcatProperties
<1>5. buffer' \in [Request -> Seq(Piece)]
  BY <1>1, <1>2, <1>4
<1>6. reader' \in [Request -> {"none", "writing", "reading", "answered", "error"}]
  BY <1>2 DEF Types, TypeOK
<1>7. lock' \in Request \cup {0}
  BY DEF Read
<1>8. valid' \in BOOLEAN /\ FailsBefore'
  <2>1. valid' = valid /\ current' = current
    BY DEF Read
  <2> QED BY <2>1 DEF Types, TypeOK, FailsBefore, Timed
<1>9. AnswersRead'
  <2>1. buffer'[k] = buffer[k] \o SubSeq(wire, 1, n) /\ \A j \in Request \ {k} : buffer'[j] = buffer[j]
    BY <1>1, <1>2
  <2>2. Len(buffer'[k]) = Len(buffer[k]) + n /\ Len(buffer[k]) \in Nat
    BY <1>1, <1>3, <2>1, ConcatProperties, SplitSeq, LenProperties
  <2>3. buffer'[k] # <<>>
    BY <2>2, EmptySeq
  <2>4. \A j \in Request \ {k} : reader'[j] = reader[j]
    BY <1>2 DEF Types, TypeOK
  <2> QED BY <2>1, <2>3, <2>4 DEF Types, AnswersRead
<1> QED BY <1>3, <1>5, <1>6, <1>7, <1>8, <1>9 DEF Types, TypeOK, Read

LEMMA SameTypes ==
  ASSUME Types, UNCHANGED <<current, valid>>,
         pc' \in {"connecting", "asking", "parallel", "stopping", "killing", "ended", "exited"},
         process' \in {"running", "exited", "failed", "signalled"},
         waiter' \in {"waiting", "sending", "done"},
         acceptor' \in {"accepting", "sending", "done"},
         link' \in {"none", "open", "closed"},
         reader' \in [Request -> {"none", "writing", "reading", "answered", "error"}],
         given' = given,
         inbox' \in Seq(Request), wire' \in Seq(Piece), lock' \in Request \cup {0},
         buffer' = buffer,
         \A k \in Request : reader'[k] = "answered" => reader[k] = "answered"
  PROVE  Types'
<1>2. AnswersRead'
  BY DEF Types, AnswersRead
<1>1. valid' \in BOOLEAN /\ FailsBefore'
  BY DEF Types, TypeOK, FailsBefore, Timed
<1> QED BY <1>1, <1>2 DEF Types, TypeOK

LEMMA TypesHold == Init => Types
<1>1. Init => TypeOK /\ FailsBefore /\ AnswersRead
  BY TypeInit, SessionAssumption DEF Init, FailsBefore, AnswersRead, Timed
<1> QED BY <1>1 DEF Types

LEMMA TypesStep == Types /\ [Next]_vars => Types'
<1> SUFFICES ASSUME Types, [Next]_vars PROVE Types'
  OBVIOUS
<1>1. TypeOK
  BY DEF Types
<1>2. CASE Connected \/ RunnerDied \/ ConnectTimeout
  BY <1>1, <1>2, SameTypes DEF TypeOK, Connected, RunnerDied, ConnectTimeout, KillProcess, exchange
<1>3. CASE Ask
  BY <1>1, <1>3, SameTypes DEF TypeOK, Ask
<1>4. CASE TakeAnswer
  <2>1. PICK accepted \in BOOLEAN :
          Conclude(IF reader[current] = "answered" THEN buffer[current][1][1] ELSE 0, accepted)
    BY <1>4 DEF TakeAnswer
  <2>2. (IF reader[current] = "answered" THEN buffer[current][1][1] ELSE 0) \in Request \cup {0}
    <3>1. CASE reader[current] = "answered"
      <4>1. current \in Request /\ buffer[current] \in Seq(Piece)
        BY <1>1 DEF TypeOK
      <4>2. buffer[current] # <<>>
        BY <3>1, <4>1 DEF Types, AnswersRead
      <4>3. Len(buffer[current]) \in Nat \ {0}
        BY <4>1, <4>2, EmptySeq
      <4>4. 1 \in 1..Len(buffer[current])
        BY <4>3
      <4>5. buffer[current][1] \in Piece
        BY <4>1, <4>4, ElementOfSeq
      <4> QED BY <3>1, <4>5 DEF Piece
    <3> QED BY <3>1
  <2>3. /\ pc' \in {"asking", "parallel", "stopping"} /\ current' \in Request
        /\ given' \in [Request -> Request \cup {0}] /\ valid' \in BOOLEAN
        /\ FailsBefore'
    BY <2>1, <2>2, ConcludeType
  <2>4. UNCHANGED <<process, waiter, acceptor, link, reader, inbox, wire, lock, buffer>>
    BY <1>4 DEF TakeAnswer
  <2> QED BY <1>1, <2>3, <2>4 DEF Types, TypeOK, AnswersRead
<1>5. CASE RequestTimeout
  <2>1. /\ pc' \in {"asking", "parallel", "stopping"} /\ current' \in Request
        /\ given' \in [Request -> Request \cup {0}] /\ valid' \in BOOLEAN
        /\ FailsBefore'
    BY <1>5, ConcludeType DEF RequestTimeout
  <2>2. UNCHANGED <<process, waiter, acceptor, link, reader, inbox, wire, lock, buffer>>
    BY <1>5 DEF RequestTimeout
  <2> QED BY <1>1, <2>1, <2>2 DEF Types, TypeOK, AnswersRead
<1>6. CASE RejectTableRows \/ FinishParallel \/ BeginKill \/ SeeExit \/ KillTimeout
  BY <1>1, <1>6, SameTypes DEF TypeOK, RejectTableRows, FinishParallel, Exit, BeginKill, SeeExit,
     KillTimeout, KillProcess, exchange
<1>7. CASE Reap \/ Accept
  BY <1>1, <1>7, SameTypes DEF TypeOK, Reap, Accept, exchange
<1>8. CASE Answer
  <2>1. inbox \in Seq(Request) /\ inbox # <<>> /\ wire \in Seq(Piece)
    BY <1>1, <1>8 DEF TypeOK, Answer
  <2>2. Head(inbox) \in Request /\ Tail(inbox) \in Seq(Request)
    BY <2>1, HeadTailProperties
  <2>3. [n \in 1..Parts |-> <<Head(inbox), n>>] \in Seq(Piece)
    BY <2>2, SessionAssumption DEF Piece
  <2>4. wire' \in Seq(Piece)
    BY <1>8, <2>1, <2>3, ConcatProperties DEF Answer
  <2> QED BY <1>1, <1>8, <2>2, <2>4, SameTypes DEF TypeOK, Answer
<1>9. ASSUME NEW k \in Request, ReaderStep(k) PROVE Types'
  <2>1. CASE WriteRequest(k)
    BY <1>1, <2>1, SameTypes DEF TypeOK, WriteRequest
  <2>2. CASE FailToWrite(k)
    BY <1>1, <2>2, SameTypes DEF TypeOK, FailToWrite
  <2>3. CASE EnterRead(k)
    BY <1>1, <2>3, SameTypes DEF TypeOK, EnterRead
  <2>4. CASE Read(k)
    BY <2>4, ReadType
  <2>5. CASE Misread(k)
    BY <1>1, <2>5, SameTypes DEF TypeOK, Misread
  <2>6. CASE FailToRead(k)
    BY <1>1, <2>6, SameTypes DEF TypeOK, FailToRead
  <2> QED BY <1>9, <2>1, <2>2, <2>3, <2>4, <2>5, <2>6 DEF ReaderStep
<1>10. ASSUME NEW how \in {"exited", "failed", "signalled"}, RunnerEnds(how) PROVE Types'
  BY <1>1, <1>10, SameTypes DEF TypeOK, RunnerEnds, exchange
<1>11. CASE UNCHANGED vars
  BY <1>1, <1>11, SameTypes DEF TypeOK, vars
<1> QED BY <1>2, <1>3, <1>4, <1>5, <1>6, <1>7, <1>8, <1>9, <1>10, <1>11 DEF Next, MainStep

\* The state has its types, for any number of requests and of pieces.
THEOREM TypeCorrect == Spec => []TypeOK
<1>1. Types => TypeOK
  BY DEF Types
<1> QED BY <1>1, TypesHold, TypesStep, PTL DEF Spec

-----------------------------------------------------------------------------
(* The process.                                                            *)

\* cmd.Wait returns for a process that has ended only, and an execution in
\* parallel follows the validations.
ProcessInv ==
  /\ waiter # "waiting" => process # "running"
  /\ pc = "parallel" => valid /\ current = 1 + Validations
  /\ NoRunnerLeft

LEMMA ProcessStep == Types /\ ProcessInv /\ [Next]_vars => ProcessInv'
<1> SUFFICES ASSUME Types, ProcessInv, [Next]_vars PROVE ProcessInv'
  OBVIOUS
<1> USE DEF ProcessInv, NoRunnerLeft
<1>1. CASE Connected \/ RunnerDied \/ ConnectTimeout
  BY <1>1 DEF Connected, RunnerDied, ConnectTimeout, KillProcess
<1>2. CASE Ask
  BY <1>2 DEF Ask
<1>3. CASE TakeAnswer \/ RequestTimeout
  BY <1>3 DEF TakeAnswer, RequestTimeout, Conclude
<1>4. CASE RejectTableRows
  <2>1. current > SuiteStart => ~Timed(current)
    BY SessionAssumption DEF SuiteStart, Timed, Types, TypeOK, Request
  <2>2. valid /\ current > SuiteStart
    BY <1>4, <2>1 DEF RejectTableRows, Types, FailsBefore
  <2> QED BY <1>4, <2>2 DEF RejectTableRows, Exit, exchange
<1>5. CASE FinishParallel
  BY <1>5 DEF FinishParallel, Exit, exchange
<1>6. CASE BeginKill \/ SeeExit \/ KillTimeout
  BY <1>6 DEF BeginKill, SeeExit, KillTimeout, KillProcess, IsStillRunning
<1>7. CASE Reap \/ Accept \/ Answer
  BY <1>7 DEF Reap, Accept, Answer, exchange
<1>8. ASSUME NEW k \in Request, ReaderStep(k) PROVE ProcessInv'
  BY <1>8 DEF ReaderStep, WriteRequest, FailToWrite, EnterRead, Read, Misread, FailToRead
<1>9. ASSUME NEW how \in {"exited", "failed", "signalled"}, RunnerEnds(how) PROVE ProcessInv'
  BY <1>9 DEF RunnerEnds, exchange
<1>10. CASE UNCHANGED vars
  BY <1>10 DEF vars
<1> QED BY <1>1, <1>2, <1>3, <1>4, <1>5, <1>6, <1>7, <1>8, <1>9, <1>10 DEF Next, MainStep

\* A session that does not connect or validate, or whose execution comes to its end, leaves
\* no runner, for any number of requests and of pieces; Gauge exits without kill only in the
\* middle of a suite, and after an execution in parallel.
THEOREM RunnerGone == Spec => []NoRunnerLeft
<1>1. Init => ProcessInv
  BY DEF Init, ProcessInv, NoRunnerLeft
<1>2. ProcessInv => NoRunnerLeft
  BY DEF ProcessInv
<1> QED BY <1>1, <1>2, TypesHold, TypesStep, ProcessStep, PTL DEF Spec

-----------------------------------------------------------------------------
(* Answers.                                                                *)

Quiet(k) == reader[k] \notin {"writing", "reading"}

\* Requests that have not been made.
Unused ==
  \A k \in Request : k > current => reader[k] = "none" /\ buffer[k] = <<>> /\ given[k] = 0

\* Only a goroutine that reads is inside conn.Read.
LockInv == lock # 0 => reader[lock] = "reading"

\* Pieces is the first of the answer to k, up to a number of them.
BeginsAnswer(pieces, k) == \A n \in DOMAIN pieces : pieces[n] = <<k, n>>

\* Nothing is on its way.
Silent == inbox = <<>> /\ wire = <<>>

\* The answer to k is in the buffer of its reader and on the wire.
InStep(k) ==
  /\ Len(buffer[k]) < Parts /\ BeginsAnswer(buffer[k], k)
  /\ Len(wire) = Parts - Len(buffer[k])
  /\ \A n \in DOMAIN wire : wire[n] = <<k, Len(buffer[k]) + n>>

\* Everything there is, is of request k.
Stream(k) ==
  \/ reader[k] \in {"none", "writing"} /\ Silent /\ buffer[k] = <<>>
  \/ reader[k] = "reading" /\ inbox = <<k>> /\ wire = <<>> /\ buffer[k] = <<>>
  \/ reader[k] = "reading" /\ inbox = <<>> /\ InStep(k)
  \/ reader[k] = "answered" /\ Silent /\ buffer[k] # <<>> /\ buffer[k][1] = <<k, 1>>
  \/ reader[k] = "error" /\ Silent /\ process # "running"

\* The connection is closed on the request.
Lost == link = "closed" /\ reader[current] # "answered"

Alone(k) == (\A j \in Request \ {k} : Quiet(j)) /\ (Stream(k) \/ Lost)

\* The request for the names has timed out and its answer is yet to be read: what is
\* known of the first validation.
ValidationWaits ==
  \/ reader[2] \in {"none", "writing"} /\ inbox = <<1>>
  \/ reader[2] = "reading" /\ inbox = <<1, 2>>
  \/ reader[2] = "error" /\ process # "running" /\ inbox = <<1>>

Late ==
  /\ reader[1] = "reading" /\ buffer[2] = <<>>
  /\ \/ wire = <<>> /\ buffer[1] = <<>> /\ ValidationWaits
     \/ /\ Len(buffer[1]) < Parts /\ BeginsAnswer(buffer[1], 1)
        /\ \A n \in DOMAIN wire :
             wire[n] = IF n <= Parts - Len(buffer[1]) THEN <<1, Len(buffer[1]) + n>>
                       ELSE <<2, n - (Parts - Len(buffer[1]))>>
        /\ \/ /\ Len(wire) = Parts - Len(buffer[1])
              /\ \/ reader[2] \in {"none", "writing"} /\ inbox = <<>>
                 \/ reader[2] = "reading" /\ inbox = <<2>>
                 \/ reader[2] = "error" /\ process # "running" /\ inbox = <<>>
           \/ /\ Len(wire) = Parts + Parts - Len(buffer[1])
              /\ reader[2] = "reading" /\ inbox = <<>>

\* The first validation has read some of the names, or has lost the beginning of its answer.
Spoiled == buffer[2] # <<>> /\ buffer[2][1][1] = 1

Cut ==
  /\ reader[2] \in {"reading", "error"} /\ inbox = <<>>
  /\ \A n \in DOMAIN wire : wire[n][2] # 1
  /\ buffer[2] # <<>> => buffer[2][1][2] # 1

Two ==
  /\ \A k \in Request \ {1, 2} : Quiet(k)
  /\ Late \/ Spoiled \/ Lost \/ (Quiet(1) /\ (Stream(2) \/ Cut))

\* As long as every validation has passed.
Valid ==
  valid /\ pc \in {"connecting", "asking"} =>
    IF current = 2 THEN Two ELSE Alone(current)

AnswersInv ==
  /\ Unused /\ LockInv /\ Valid
  /\ pc = "connecting" => link = "none" /\ \A k \in Request : reader[k] = "none"
  /\ ExecutionGetsItsAnswers

\* The steps of a stream.
LEMMA EmptyLen ==
  ASSUME NEW S, NEW s \in Seq(S)
  PROVE  Len(s) \in Nat /\ (s = <<>> <=> Len(s) = 0)
BY EmptySeq, LenProperties

LEMMA ReadFacts ==
  ASSUME Types, NEW k \in Request, Read(k), reader[k] = "reading"
  PROVE  /\ link = "open" /\ link' = "open" /\ inbox' = inbox /\ process' = process
         /\ current' = current /\ valid' = valid /\ pc' = pc /\ given' = given /\ lock' = 0
         /\ \A j \in Request \ {k} : buffer'[j] = buffer[j] /\ reader'[j] = reader[j]
         /\ reader'[k] = IF ~Complete(buffer'[k]) THEN "reading"
                         ELSE IF Intact(buffer'[k]) THEN "answered" ELSE "error"
         /\ Len(wire) \in Nat /\ Len(buffer[k]) \in Nat
         /\ \E n \in 1..Len(wire) :
              /\ Len(wire') = Len(wire) - n
              /\ \A i \in 1..(Len(wire) - n) : wire'[i] = wire[n + i]
              /\ Len(buffer'[k]) = Len(buffer[k]) + n
              /\ \A i \in 1..(Len(buffer[k]) + n) :
                   buffer'[k][i] = IF i <= Len(buffer[k]) THEN buffer[k][i] ELSE wire[i - Len(buffer[k])]
<1>1. wire \in Seq(Piece) /\ buffer \in [Request -> Seq(Piece)]
  BY DEF Types, TypeOK
<1>2. PICK n \in 1..Len(wire) :
        LET pieces == buffer[k] \o SubSeq(wire, 1, n)
        IN  /\ wire' = SubSeq(wire, n + 1, Len(wire))
            /\ buffer' = [buffer EXCEPT ![k] = pieces]
            /\ reader' = [reader EXCEPT ![k] = IF ~Complete(pieces) THEN @
                                                ELSE IF Intact(pieces) THEN "answered" ELSE "error"]
  BY DEF Read
<1> DEFINE readParts == SubSeq(wire, 1, n)
<1>3. /\ readParts \in Seq(Piece) /\ Len(readParts) = n
      /\ \A i \in 1..n : readParts[i] = wire[i]
      /\ Len(wire') = Len(wire) - n
      /\ \A i \in 1..(Len(wire) - n) : wire'[i] = wire[n + i]
  BY <1>1, <1>2, SplitSeq
<1>4. buffer'[k] = buffer[k] \o readParts /\ \A j \in Request \ {k} : buffer'[j] = buffer[j]
  BY <1>1, <1>2
<1>5. /\ reader'[k] = IF ~Complete(buffer'[k]) THEN "reading"
                      ELSE IF Intact(buffer'[k]) THEN "answered" ELSE "error"
      /\ \A j \in Request \ {k} : reader'[j] = reader[j]
  BY <1>2, <1>4 DEF Types, TypeOK
<1>6. Len(wire) \in Nat /\ Len(buffer[k]) \in Nat
  BY <1>1, EmptyLen
<1> HIDE DEF readParts
<1>7. /\ Len(buffer'[k]) = Len(buffer[k]) + n
      /\ \A i \in 1..(Len(buffer[k]) + n) :
           buffer'[k][i] = IF i <= Len(buffer[k]) THEN buffer[k][i] ELSE readParts[i - Len(buffer[k])]
  <2>1. buffer[k] \in Seq(Piece) /\ readParts \in Seq(Piece)
    BY <1>1, <1>3
  <2>2. /\ Len(buffer[k] \o readParts) = Len(buffer[k]) + Len(readParts)
        /\ \A i \in 1..(Len(buffer[k]) + Len(readParts)) :
             (buffer[k] \o readParts)[i] = IF i <= Len(buffer[k]) THEN buffer[k][i]
                                           ELSE readParts[i - Len(buffer[k])]
    BY <2>1, ConcatProperties
  <2> QED BY <1>3, <1>4, <2>2
<1>8. \A i \in 1..(Len(buffer[k]) + n) :
        buffer'[k][i] = IF i <= Len(buffer[k]) THEN buffer[k][i] ELSE wire[i - Len(buffer[k])]
  <2> SUFFICES ASSUME NEW i \in 1..(Len(buffer[k]) + n)
               PROVE  buffer'[k][i] = IF i <= Len(buffer[k]) THEN buffer[k][i]
                                      ELSE wire[i - Len(buffer[k])]
    OBVIOUS
  <2>1. CASE i <= Len(buffer[k])
    BY <1>7, <2>1
  <2>2. CASE ~(i <= Len(buffer[k]))
    <3>1. i - Len(buffer[k]) \in 1..n
      BY <1>6, <2>2
    <3>2. readParts[i - Len(buffer[k])] = wire[i - Len(buffer[k])]
      BY <1>3, <3>1
    <3>3. buffer'[k][i] = readParts[i - Len(buffer[k])]
      BY <1>7, <2>2
    <3> QED BY <2>2, <3>2, <3>3
  <2> QED BY <2>1, <2>2
<1> QED BY <1>3, <1>4, <1>5, <1>6, <1>7, <1>8 DEF Read

LEMMA StreamRead ==
  ASSUME Types, Types', NEW k \in Request, Stream(k), Read(k), reader[k] = "reading"
  PROVE  Stream(k)'
<1>1. /\ inbox' = inbox
      /\ reader'[k] = IF ~Complete(buffer'[k]) THEN "reading"
                      ELSE IF Intact(buffer'[k]) THEN "answered" ELSE "error"
      /\ Len(wire) \in Nat /\ Len(buffer[k]) \in Nat
  BY ReadFacts
<1>2. PICK n \in 1..Len(wire) :
        /\ Len(wire') = Len(wire) - n
        /\ \A i \in 1..(Len(wire) - n) : wire'[i] = wire[n + i]
        /\ Len(buffer'[k]) = Len(buffer[k]) + n
        /\ \A i \in 1..(Len(buffer[k]) + n) :
             buffer'[k][i] = IF i <= Len(buffer[k]) THEN buffer[k][i] ELSE wire[i - Len(buffer[k])]
  BY ReadFacts
<1>3. /\ wire \in Seq(Piece) /\ buffer[k] \in Seq(Piece)
      /\ wire' \in Seq(Piece) /\ buffer'[k] \in Seq(Piece)
  BY DEF Types, TypeOK
<1>4. wire # <<>>
  BY <1>2, <1>3, EmptyLen
<1>5. inbox = <<>> /\ InStep(k)
  BY <1>4 DEF Stream, Silent
<1>6. Parts \in Nat \ {0}
  BY SessionAssumption
<1>7. DOMAIN buffer[k] = 1..Len(buffer[k]) /\ DOMAIN wire = 1..Len(wire)
      /\ DOMAIN buffer'[k] = 1..Len(buffer'[k]) /\ DOMAIN wire' = 1..Len(wire')
  BY <1>3, LenProperties
<1>8. BeginsAnswer(buffer'[k], k)
  <2>1. ASSUME NEW i \in DOMAIN buffer'[k]
        PROVE  buffer'[k][i] = <<k, i>>
    <3>1. i \in Nat \ {0} /\ i <= Len(buffer[k]) + n /\ i \in 1..(Len(buffer[k]) + n)
      BY <1>1, <1>2, <1>7
    <3>2. CASE i <= Len(buffer[k])
      <4>1. i \in DOMAIN buffer[k]
        BY <1>1, <1>7, <3>1, <3>2
      <4>2. buffer[k][i] = <<k, i>>
        BY <1>5, <4>1 DEF InStep, BeginsAnswer
      <4> QED BY <1>2, <3>1, <3>2, <4>2
    <3>3. CASE ~(i <= Len(buffer[k]))
      <4>1. i - Len(buffer[k]) \in 1..Len(wire)
        BY <1>1, <1>2, <3>1, <3>3
      <4>2. wire[i - Len(buffer[k])] = <<k, Len(buffer[k]) + (i - Len(buffer[k]))>>
        BY <1>5, <1>7, <4>1 DEF InStep
      <4>3. Len(buffer[k]) + (i - Len(buffer[k])) = i
        BY <1>1, <3>1
      <4> QED BY <1>2, <3>1, <3>3, <4>2, <4>3
    <3> QED BY <3>2, <3>3
  <2> QED BY <2>1 DEF BeginsAnswer
<1>9. CASE Len(buffer'[k]) < Parts
  <2>1. ~Complete(buffer'[k])
    BY <1>1, <1>2, <1>6, <1>9 DEF Complete
  <2>2. Len(wire') = Parts - Len(buffer'[k])
    BY <1>1, <1>2, <1>5, <1>6 DEF InStep
  <2>3. \A i \in DOMAIN wire' : wire'[i] = <<k, Len(buffer'[k]) + i>>
    <3>1. ASSUME NEW i \in DOMAIN wire'
          PROVE  wire'[i] = <<k, Len(buffer'[k]) + i>>
      <4>1. i \in 1..(Len(wire) - n) /\ n + i \in 1..Len(wire)
        BY <1>1, <1>2, <1>7
      <4>2. wire[n + i] = <<k, Len(buffer[k]) + (n + i)>>
        BY <1>5, <1>7, <4>1 DEF InStep
      <4>3. Len(buffer[k]) + (n + i) = Len(buffer'[k]) + i
        BY <1>1, <1>2, <4>1
      <4> QED BY <1>2, <4>1, <4>2, <4>3
    <3> QED BY <3>1
  <2>4. InStep(k)'
    BY <1>8, <1>9, <2>2, <2>3 DEF InStep, BeginsAnswer
  <2> QED BY <1>1, <1>5, <2>1, <2>4 DEF Stream
<1>10. CASE ~(Len(buffer'[k]) < Parts)
  <2>1. Len(buffer'[k]) = Parts /\ Len(wire') = 0
    BY <1>1, <1>2, <1>5, <1>6, <1>10 DEF InStep
  <2>2. \A i \in 1..Parts : buffer'[k][i] = <<k, i>>
    BY <1>7, <1>8, <2>1 DEF BeginsAnswer
  <2>3. buffer'[k][1] = <<k, 1>> /\ buffer'[k][1][1] = k /\ buffer'[k][1][2] = 1
    BY <1>6, <2>2
  <2>4. Complete(buffer'[k]) /\ Intact(buffer'[k])
    BY <1>6, <2>1, <2>2, <2>3 DEF Complete, Intact
  <2>5. wire' = <<>> /\ buffer'[k] # <<>>
    BY <1>3, <1>6, <2>1, EmptyLen
  <2> QED BY <1>1, <1>5, <2>3, <2>4, <2>5 DEF Stream, Silent
<1> QED BY <1>9, <1>10

\* The answer goes on the wire whole.
LEMMA AnswerFacts ==
  ASSUME Types, Answer
  PROVE  /\ inbox # <<>> /\ inbox' = Tail(inbox)
         /\ UNCHANGED <<reader, buffer, link, process, current, valid, pc, given, lock>>
         /\ process = "running"
         /\ Len(wire) \in Nat /\ Len(wire') = Len(wire) + Parts
         /\ \A i \in 1..(Len(wire) + Parts) :
              wire'[i] = IF i <= Len(wire) THEN wire[i] ELSE <<Head(inbox), i - Len(wire)>>
<1>1. inbox \in Seq(Request) /\ inbox # <<>> /\ wire \in Seq(Piece)
  BY DEF Types, TypeOK, Answer
<1>2. Head(inbox) \in Request /\ Parts \in Nat
  BY <1>1, HeadTailProperties, SessionAssumption
<1> DEFINE answer == [n \in 1..Parts |-> <<Head(inbox), n>>]
<1>3. answer \in Seq(Piece)
  BY <1>2 DEF Piece
<1>4. Len(answer) = Parts
  BY <1>2, <1>3, LenProperties
<1>5. \A i \in 1..Parts : answer[i] = <<Head(inbox), i>>
  OBVIOUS
<1>6. wire' = wire \o answer
  BY DEF Answer
<1>7. Len(wire) \in Nat
  BY <1>1, EmptyLen
<1> HIDE DEF answer
<1>8. /\ Len(wire') = Len(wire) + Parts
      /\ \A i \in 1..(Len(wire) + Parts) :
           wire'[i] = IF i <= Len(wire) THEN wire[i] ELSE answer[i - Len(wire)]
  BY <1>1, <1>3, <1>4, <1>6, ConcatProperties
<1>9. \A i \in 1..(Len(wire) + Parts) :
        wire'[i] = IF i <= Len(wire) THEN wire[i] ELSE <<Head(inbox), i - Len(wire)>>
  <2>1. ASSUME NEW i \in 1..(Len(wire) + Parts), ~(i <= Len(wire))
        PROVE  answer[i - Len(wire)] = <<Head(inbox), i - Len(wire)>>
    <3>1. i - Len(wire) \in 1..Parts
      BY <1>2, <1>7, <2>1
    <3> QED BY <1>5, <3>1
  <2> QED BY <1>8, <2>1
<1> QED BY <1>1, <1>7, <1>8, <1>9 DEF Answer

LEMMA StreamAnswer ==
  ASSUME Types, Types', NEW k \in Request, Stream(k), Answer
  PROVE  Stream(k)'
<1>1. reader[k] = "reading" /\ inbox = <<k>> /\ wire = <<>> /\ buffer[k] = <<>>
  BY AnswerFacts DEF Stream, Silent
<1>2. Len(wire) = 0 /\ Len(buffer[k]) = 0 /\ Parts \in Nat \ {0}
  BY <1>1, SessionAssumption
<1>3. Head(inbox) = k /\ Tail(inbox) = <<>>
  BY <1>1
<1>4. /\ Len(wire') = Parts
      /\ \A i \in 1..Parts : wire'[i] = <<k, i>>
  BY <1>2, <1>3, AnswerFacts
<1>5. DOMAIN wire' = 1..Len(wire')
  BY LenProperties DEF Types, TypeOK
<1>6. buffer' = buffer /\ reader' = reader /\ inbox' = <<>>
  BY <1>3, AnswerFacts
<1>7. InStep(k)'
  BY <1>1, <1>2, <1>4, <1>5, <1>6 DEF InStep, BeginsAnswer
<1> QED BY <1>1, <1>6, <1>7 DEF Stream

\* The reader that is late reads.
LEMMA LateReads ==
  ASSUME Types, Types', Late, Read(1)
  PROVE  Late' \/ (Quiet(1)' /\ (Stream(2)' \/ Cut'))
<1> DEFINE b == Len(buffer[1])
<1>1. 1 \in Request /\ 2 \in Request \ {1} /\ Parts \in Nat \ {0}
  BY RequestFacts, SessionAssumption
<1>2. /\ inbox' = inbox /\ process' = process
      /\ buffer'[2] = buffer[2] /\ reader'[2] = reader[2]
      /\ reader'[1] = IF ~Complete(buffer'[1]) THEN "reading"
                      ELSE IF Intact(buffer'[1]) THEN "answered" ELSE "error"
      /\ Len(wire) \in Nat /\ b \in Nat
  BY <1>1, ReadFacts DEF Late
<1>3. PICK n \in 1..Len(wire) :
        /\ Len(wire') = Len(wire) - n
        /\ \A i \in 1..(Len(wire) - n) : wire'[i] = wire[n + i]
        /\ Len(buffer'[1]) = b + n
        /\ \A i \in 1..(b + n) : buffer'[1][i] = IF i <= b THEN buffer[1][i] ELSE wire[i - b]
  BY <1>1, ReadFacts DEF Late
<1>4. /\ wire \in Seq(Piece) /\ wire' \in Seq(Piece)
      /\ buffer[1] \in Seq(Piece) /\ buffer'[1] \in Seq(Piece)
  BY <1>1 DEF Types, TypeOK
<1>5. DOMAIN buffer[1] = 1..b /\ DOMAIN wire = 1..Len(wire)
      /\ DOMAIN buffer'[1] = 1..(b + n) /\ DOMAIN wire' = 1..Len(wire')
  BY <1>3, <1>4, LenProperties
<1>6. wire # <<>>
  BY <1>3, <1>4, EmptyLen
<1>7. /\ b < Parts
      /\ \A i \in 1..b : buffer[1][i] = <<1, i>>
      /\ \A i \in 1..Len(wire) : wire[i] = IF i <= Parts - b THEN <<1, b + i>>
                                             ELSE <<2, i - (Parts - b)>>
      /\ \/ /\ Len(wire) = Parts - b
            /\ \/ reader[2] \in {"none", "writing"} /\ inbox = <<>>
               \/ reader[2] = "reading" /\ inbox = <<2>>
               \/ reader[2] = "error" /\ process # "running" /\ inbox = <<>>
         \/ /\ Len(wire) = Parts + Parts - b
            /\ reader[2] = "reading" /\ inbox = <<>>
      /\ buffer[2] = <<>> /\ reader[1] = "reading"
  BY <1>5, <1>6 DEF Late, BeginsAnswer
<1> HIDE DEF b
<1>8. ASSUME NEW i \in 1..(b + n), i <= Parts
      PROVE  buffer'[1][i] = <<1, i>>
  <2>1. CASE i <= b
    <3>1. i \in 1..b
      BY <1>2, <1>3, <2>1
    <3>2. buffer'[1][i] = buffer[1][i]
      BY <1>3, <2>1
    <3>3. buffer[1][i] = <<1, i>>
      BY <1>7, <3>1
    <3> QED BY <3>2, <3>3
  <2>2. CASE ~(i <= b)
    <3>1. i - b \in 1..Len(wire) /\ i - b <= Parts - b
      BY <1>1, <1>2, <1>3, <1>8, <2>2
    <3>2. wire[i - b] = <<1, b + (i - b)>>
      BY <1>7, <3>1
    <3> QED BY <1>2, <1>3, <2>2, <3>2
  <2> QED BY <2>1, <2>2
<1>9. ASSUME NEW i \in 1..(Len(wire) - n)
      PROVE  wire'[i] = IF n + i <= Parts - b THEN <<1, b + (n + i)>>
                        ELSE <<2, (n + i) - (Parts - b)>>
  <2>1. n + i \in 1..Len(wire)
    BY <1>2, <1>3
  <2> QED BY <1>3, <1>7, <2>1
<1>10. CASE b + n < Parts
  <2>1. ~Complete(buffer'[1]) /\ reader'[1] = "reading"
    BY <1>1, <1>2, <1>3, <1>10 DEF Complete
  <2>2. BeginsAnswer(buffer'[1], 1)
    BY <1>1, <1>2, <1>5, <1>8, <1>10 DEF BeginsAnswer
  <2>3. ASSUME NEW i \in DOMAIN wire'
        PROVE  wire'[i] = IF i <= Parts - (b + n) THEN <<1, (b + n) + i>>
                          ELSE <<2, i - (Parts - (b + n))>>
    <3>1. i \in 1..(Len(wire) - n)
      BY <1>3, <1>5
    <3>2. n + i <= Parts - b <=> i <= Parts - (b + n)
      BY <1>1, <1>2, <3>1
    <3>3. b + (n + i) = (b + n) + i /\ (n + i) - (Parts - b) = i - (Parts - (b + n))
      BY <1>1, <1>2, <3>1
    <3> QED BY <1>9, <3>1, <3>2, <3>3
  <2>4. Late'
    BY <1>1, <1>2, <1>3, <1>7, <1>10, <2>1, <2>2, <2>3 DEF Late, BeginsAnswer
  <2> QED BY <2>4
<1>11. CASE ~(b + n < Parts)
  <2>1. \A i \in 1..Parts : buffer'[1][i] = <<1, i>>
    BY <1>1, <1>2, <1>8, <1>11
  <2>2. buffer'[1][1] = <<1, 1>> /\ buffer'[1][1][1] = 1 /\ buffer'[1][1][2] = 1
    BY <1>1, <2>1
  <2>3. Complete(buffer'[1]) /\ Intact(buffer'[1])
    BY <1>1, <1>2, <1>3, <1>11, <2>1, <2>2 DEF Complete, Intact
  <2>4. Quiet(1)'
    BY <1>2, <2>3 DEF Quiet
  <2>5. CASE b + n = Parts
    <3>1. CASE Len(wire) = Parts - b
      <4>1. Len(wire') = 0
        BY <1>1, <1>2, <1>3, <2>5, <3>1
      <4>2. wire' = <<>>
        BY <1>4, <4>1, EmptyLen
      <4>3. Parts - b # Parts + Parts - b
        BY <1>1, <1>2
      <4> QED BY <1>2, <1>7, <2>4, <3>1, <4>2, <4>3 DEF Stream, Silent
    <3>2. CASE Len(wire) = Parts + Parts - b /\ reader[2] = "reading" /\ inbox = <<>>
      <4>1. Len(wire') = Parts
        BY <1>1, <1>2, <1>3, <2>5, <3>2
      <4>2. ASSUME NEW i \in DOMAIN wire'
            PROVE  wire'[i] = <<2, 0 + i>>
        <5>1. i \in 1..(Len(wire) - n)
          BY <1>3, <1>5
        <5>2. ~(n + i <= Parts - b) /\ (n + i) - (Parts - b) = 0 + i
          BY <1>1, <1>2, <2>5, <5>1
        <5> QED BY <1>9, <5>1, <5>2
      <4>3. Len(buffer'[2]) = 0 /\ DOMAIN buffer'[2] = {}
        BY <1>2, <1>7
      <4>4. InStep(2)'
        BY <1>1, <4>1, <4>2, <4>3 DEF InStep, BeginsAnswer
      <4> QED BY <1>2, <2>4, <3>2, <4>4 DEF Stream
    <3> QED BY <1>7, <3>1, <3>2
  <2>6. CASE b + n # Parts
    <3>1. Len(wire) # Parts - b
      BY <1>1, <1>2, <1>3, <1>11, <2>6
    <3>2. reader[2] = "reading" /\ inbox = <<>>
      BY <1>7, <3>1
    <3>3. ASSUME NEW i \in DOMAIN wire'
          PROVE  wire'[i][2] # 1
      <4>1. i \in 1..(Len(wire) - n)
        BY <1>3, <1>5
      <4>2. ~(n + i <= Parts - b) /\ (n + i) - (Parts - b) > 1
        BY <1>1, <1>2, <1>11, <2>6, <4>1
      <4>3. wire'[i] = <<2, (n + i) - (Parts - b)>>
        BY <1>9, <4>1, <4>2
      <4> QED BY <4>2, <4>3
    <3>4. Cut'
      BY <1>2, <1>7, <3>2, <3>3 DEF Cut
    <3> QED BY <2>4, <3>4
  <2> QED BY <2>5, <2>6
<1> QED BY <1>10, <1>11

\* The validation reads what is left of the names.
LEMMA LateSpoils ==
  ASSUME Types, Types', Late, Read(2), reader[2] = "reading"
  PROVE  Spoiled'
<1>1. 2 \in Request /\ Parts \in Nat \ {0}
  BY RequestFacts, SessionAssumption
<1>2. PICK n \in 1..Len(wire) :
        /\ Len(buffer'[2]) = Len(buffer[2]) + n
        /\ \A i \in 1..(Len(buffer[2]) + n) :
             buffer'[2][i] = IF i <= Len(buffer[2]) THEN buffer[2][i] ELSE wire[i - Len(buffer[2])]
  BY <1>1, ReadFacts
<1>3. /\ wire \in Seq(Piece) /\ buffer'[2] \in Seq(Piece) /\ Len(buffer[2]) = 0
      /\ buffer[1] \in Seq(Piece) /\ Len(wire) \in Nat /\ Len(buffer[1]) \in Nat
  BY <1>1, RequestFacts, EmptyLen DEF Late, Types, TypeOK
<1>4. 1 \in DOMAIN wire /\ wire # <<>>
  BY <1>2, <1>3, EmptyLen, LenProperties
<1>5. wire[1] = <<1, Len(buffer[1]) + 1>>
  BY <1>1, <1>3, <1>4 DEF Late
<1>6. buffer'[2][1] = wire[1] /\ buffer'[2] # <<>>
  BY <1>2, <1>3, EmptyLen
<1> QED BY <1>5, <1>6 DEF Spoiled

LEMMA LateAnswer ==
  ASSUME Types, Types', Late, Answer
  PROVE  Late'
<1> DEFINE b == Len(buffer[1])
<1>1. 1 \in Request /\ Parts \in Nat \ {0}
  BY RequestFacts, SessionAssumption
<1>2. /\ inbox # <<>> /\ inbox' = Tail(inbox)
      /\ reader' = reader /\ buffer' = buffer /\ process' = process
      /\ process = "running"
      /\ Len(wire) \in Nat /\ Len(wire') = Len(wire) + Parts
      /\ \A i \in 1..(Len(wire) + Parts) :
           wire'[i] = IF i <= Len(wire) THEN wire[i] ELSE <<Head(inbox), i - Len(wire)>>
  BY AnswerFacts
<1>3. buffer[1] \in Seq(Piece) /\ b \in Nat
  BY <1>1, EmptyLen DEF Types, TypeOK
<1>4. DOMAIN wire' = 1..(Len(wire) + Parts) /\ DOMAIN wire = 1..Len(wire)
  BY <1>2, LenProperties DEF Types, TypeOK
<1>5. CASE wire = <<>> /\ buffer[1] = <<>> /\ ValidationWaits
  <2>1. Len(wire) = 0 /\ b = 0 /\ DOMAIN buffer[1] = {}
    BY <1>5
  <2>2. Head(inbox) = 1 /\ (inbox = <<1>> => Tail(inbox) = <<>>)
        /\ (inbox = <<1, 2>> => Tail(inbox) = <<2>>)
    <3>1. Head(<<1>>) = 1 /\ Tail(<<1>>) = <<>>
      OBVIOUS
    <3>2. Head(<<1, 2>>) = 1
      OBVIOUS
    <3>3. Tail(<<1, 2>>) = <<2>>
      OBVIOUS
    <3>4. inbox = <<1>> \/ inbox = <<1, 2>>
      BY <1>5 DEF ValidationWaits
    <3> QED BY <3>1, <3>2, <3>3, <3>4
  <2>3. \A i \in DOMAIN wire' : wire'[i] = <<1, 0 + i>> /\ i <= Parts
    BY <1>1, <1>2, <1>4, <2>1, <2>2
  <2>4. Len(wire') = Parts
    BY <1>1, <1>2, <2>1
  <2>5. \/ reader[2] \in {"none", "writing"} /\ inbox' = <<>>
        \/ reader[2] = "reading" /\ inbox' = <<2>>
    BY <1>2, <1>5, <2>2 DEF ValidationWaits
  <2> HIDE DEF b
  <2>6. /\ b < Parts /\ Parts - b = Parts /\ BeginsAnswer(buffer[1], 1)
    BY <1>1, <2>1 DEF BeginsAnswer
  <2>7. \A i \in DOMAIN wire' : wire'[i] = IF i <= Parts - b THEN <<1, b + i>>
                                           ELSE <<2, i - (Parts - b)>>
    BY <2>1, <2>3, <2>6
  <2> QED BY <1>2, <2>4, <2>5, <2>6, <2>7 DEF Late, b, BeginsAnswer
<1>6. CASE inbox = <<2>> /\ reader[2] = "reading" /\ Len(wire) = Parts - b /\ b < Parts
           /\ BeginsAnswer(buffer[1], 1)
           /\ \A n \in DOMAIN wire :
                wire[n] = IF n <= Parts - b THEN <<1, b + n>> ELSE <<2, n - (Parts - b)>>
  <2>1. Head(inbox) = 2 /\ inbox' = <<>>
    BY <1>2, <1>6
  <2> HIDE DEF b
  <2>2. Len(wire') = Parts + Parts - b
    BY <1>1, <1>2, <1>3, <1>6
  <2>3. ASSUME NEW i \in DOMAIN wire'
        PROVE  wire'[i] = IF i <= Parts - b THEN <<1, b + i>> ELSE <<2, i - (Parts - b)>>
    BY <1>1, <1>2, <1>3, <1>4, <1>6, <2>1
  <2> QED BY <1>2, <1>6, <2>1, <2>2, <2>3 DEF Late, b, BeginsAnswer
<1> QED BY <1>2, <1>5, <1>6 DEF Late

LEMMA CutReads ==
  ASSUME Types, Types', Cut, Read(2), reader[2] = "reading"
  PROVE  Cut'
<1>1. 2 \in Request /\ Parts \in Nat \ {0}
  BY RequestFacts, SessionAssumption
<1>2. /\ inbox' = inbox
      /\ reader'[2] = IF ~Complete(buffer'[2]) THEN "reading"
                      ELSE IF Intact(buffer'[2]) THEN "answered" ELSE "error"
      /\ Len(wire) \in Nat /\ Len(buffer[2]) \in Nat
  BY <1>1, ReadFacts
<1>3. PICK n \in 1..Len(wire) :
        /\ Len(wire') = Len(wire) - n
        /\ \A i \in 1..(Len(wire) - n) : wire'[i] = wire[n + i]
        /\ Len(buffer'[2]) = Len(buffer[2]) + n
        /\ \A i \in 1..(Len(buffer[2]) + n) :
             buffer'[2][i] = IF i <= Len(buffer[2]) THEN buffer[2][i] ELSE wire[i - Len(buffer[2])]
  BY <1>1, ReadFacts
<1>4. /\ wire \in Seq(Piece) /\ wire' \in Seq(Piece) /\ buffer[2] \in Seq(Piece)
  BY <1>1 DEF Types, TypeOK
<1>5. DOMAIN wire = 1..Len(wire) /\ DOMAIN wire' = 1..Len(wire')
  BY <1>4, LenProperties
<1>6. \A i \in DOMAIN wire' : wire'[i][2] # 1
  <2>1. ASSUME NEW i \in DOMAIN wire' PROVE wire'[i][2] # 1
    <3>1. i \in 1..(Len(wire) - n) /\ n + i \in DOMAIN wire
      BY <1>2, <1>3, <1>5
    <3> QED BY <1>3, <3>1 DEF Cut
  <2> QED BY <2>1
<1>7. buffer'[2][1][2] # 1
  <2>1. CASE Len(buffer[2]) = 0
    BY <1>2, <1>3, <1>5, <2>1 DEF Cut
  <2>2. CASE Len(buffer[2]) # 0
    <3>1. buffer[2] # <<>> /\ 1 <= Len(buffer[2])
      BY <1>2, <1>4, <2>2, EmptyLen
    <3> QED BY <1>2, <1>3, <3>1 DEF Cut
  <2> QED BY <2>1, <2>2
<1>8. reader'[2] = "reading"
  BY <1>2, <1>7 DEF Complete
<1> QED BY <1>2, <1>6, <1>7, <1>8 DEF Cut

-----------------------------------------------------------------------------
(* Every step of a goroutine or of the runner keeps what is known.         *)

\* Steps that touch neither requests nor answers.
LEMMA Elsewhere ==
  ASSUME UNCHANGED <<current, reader, inbox, wire, buffer>>,
         process # "running" => process' # "running",
         link = "closed" => link' = "closed",
         NEW k \in Request
  PROVE  /\ Alone(k) => Alone(k)'
         /\ Two => Two'
<1>1. Quiet(1)' = Quiet(1) /\ \A j \in Request : Quiet(j)' = Quiet(j)
  BY DEF Quiet
<1>2. Stream(k) => Stream(k)'
  BY DEF Stream, Silent, InStep, BeginsAnswer
<1>3. Stream(2) => Stream(2)'
  BY DEF Stream, Silent, InStep, BeginsAnswer
<1>4. (Lost => Lost') /\ (Spoiled => Spoiled') /\ (Cut => Cut')
  BY DEF Lost, Spoiled, Cut
<1>5. Late => Late'
  BY DEF Late, ValidationWaits, BeginsAnswer
<1>6. Alone(k) => Alone(k)'
  BY <1>1, <1>2, <1>4 DEF Alone
<1>7. Two => Two'
  BY <1>1, <1>3, <1>4, <1>5 DEF Two
<1> QED BY <1>6, <1>7

\* Request k is made and written, or cannot be.
LEMMA StreamWrites ==
  ASSUME Types, NEW k \in Request, Stream(k),
         UNCHANGED <<wire, buffer, process>>
  PROVE  /\ reader[k] = "none" /\ inbox' = inbox /\ reader'[k] = "writing" => Stream(k)'
         /\ reader[k] = "writing" /\ inbox' = Append(inbox, k) /\ reader'[k] = "reading" => Stream(k)'
         /\ reader[k] = "writing" /\ inbox' = inbox /\ reader'[k] = "error" /\ process # "running"
              => Stream(k)'
<1>1. Append(<<>>, k) = <<k>>
  OBVIOUS
<1> QED BY <1>1 DEF Stream, Silent

\* A request that is in step is not misread.
LEMMA StreamNotMisread ==
  ASSUME Types, NEW k \in Request, Stream(k), Misread(k)
  PROVE  FALSE
<1>1. reader[k] = "reading" /\ buffer[k] # <<>> /\ buffer[k][1][2] # 1
  BY DEF Misread
<1>2. InStep(k)
  BY <1>1 DEF Stream
<1>3. buffer[k] \in Seq(Piece)
  BY DEF Types, TypeOK
<1>4. 1 \in DOMAIN buffer[k]
  BY <1>1, <1>3, EmptyLen, LenProperties
<1>5. buffer[k][1] = <<k, 1>>
  BY <1>2, <1>4 DEF InStep, BeginsAnswer
<1> QED BY <1>1, <1>5

LEMMA AskKeeps ==
  ASSUME Types, Ask, NEW c \in Request, current = c
  PROVE  /\ Alone(c) => Alone(c)'
         /\ c = 2 /\ Two => Two'
<1>1. /\ reader[c] = "none" /\ current' = c
      /\ UNCHANGED <<inbox, wire, buffer, process, link>>
      /\ reader'[c] = "writing"
      /\ \A j \in Request \ {c} : reader'[j] = reader[j]
  BY DEF Ask, Types, TypeOK
<1>2. \A j \in Request : Quiet(j) /\ j # c => Quiet(j)'
  BY <1>1 DEF Quiet
<1>3. Stream(c) => Stream(c)'
  BY <1>1, StreamWrites
<1>4. Lost => Lost'
  BY <1>1 DEF Lost
<1>5. Alone(c) => Alone(c)'
  BY <1>2, <1>3, <1>4 DEF Alone
<1>6. ASSUME c = 2, Two PROVE Two'
  <2>1. Late => Late'
    BY <1>1, <1>6, RequestFacts DEF Late, ValidationWaits, BeginsAnswer
  <2>2. Spoiled => Spoiled'
    BY <1>1 DEF Spoiled
  <2>3. ~Cut
    BY <1>1, <1>6 DEF Cut
  <2>4. \A j \in Request \ {1, 2} : Quiet(j)'
    BY <1>2, <1>6 DEF Two
  <2>5. Quiet(1) => Quiet(1)'
    BY <1>2, <1>6, RequestFacts
  <2> QED BY <1>3, <1>4, <1>6, <2>1, <2>2, <2>3, <2>4, <2>5 DEF Two
<1> QED BY <1>5, <1>6

LEMMA AnswerKeeps ==
  ASSUME Types, Types', Answer, NEW c \in Request, current = c
  PROVE  /\ Alone(c) => Alone(c)'
         /\ Two => Two'
<1>1. inbox # <<>> /\ UNCHANGED <<reader, buffer, link, process, current>>
  BY AnswerFacts
<1>2. \A j \in Request : Quiet(j)' = Quiet(j)
  BY <1>1 DEF Quiet
<1>3. (Lost => Lost') /\ (Spoiled => Spoiled') /\ ~Cut
  BY <1>1 DEF Lost, Spoiled, Cut
<1>4. Stream(c) => Stream(c)'
  BY StreamAnswer
<1>5. Stream(2) => Stream(2)'
  BY StreamAnswer, RequestFacts
<1>6. Alone(c) => Alone(c)'
  BY <1>2, <1>3, <1>4 DEF Alone
<1>7. Quiet(1)' = Quiet(1)
  BY <1>2, RequestFacts
<1>8. Two => Two'
  BY <1>2, <1>3, <1>5, <1>7, LateAnswer DEF Two
<1> QED BY <1>6, <1>8

LEMMA WriteKeeps ==
  ASSUME Types, NEW k \in Request, WriteRequest(k), NEW c \in Request, current = c
  PROVE  /\ Alone(c) => Alone(c)'
         /\ c = 2 /\ Two => Two'
<1>1. /\ reader[k] = "writing" /\ link = "open" /\ inbox' = Append(inbox, k)
      /\ UNCHANGED <<wire, buffer, process, link, current>>
      /\ reader'[k] = "reading"
      /\ \A j \in Request \ {k} : reader'[j] = reader[j]
  BY DEF WriteRequest, Types, TypeOK
<1>2. ~Quiet(k) /\ \A j \in Request : Quiet(j) /\ j # k => Quiet(j)'
  BY <1>1 DEF Quiet
<1>3. ~Lost
  BY <1>1 DEF Lost
<1>4. Stream(k) => Stream(k)'
  BY <1>1, StreamWrites
<1>5. Alone(c) => Alone(c)'
  BY <1>2, <1>3, <1>4 DEF Alone
<1>6. ASSUME c = 2, Two PROVE Two'
  <2>1. k \in {1, 2} /\ \A j \in Request \ {1, 2} : Quiet(j)'
    BY <1>2, <1>6 DEF Two
  <2>2. Spoiled => Spoiled'
    BY <1>1 DEF Spoiled
  <2>3. CASE k = 1
    <3>1. ~Late /\ ~Quiet(1)
      BY <1>1, <1>2, <2>3 DEF Late
    <3> QED BY <1>3, <1>6, <2>1, <2>2, <3>1 DEF Two
  <2>4. CASE k = 2
    <3>1. ~Cut
      BY <1>1, <2>4 DEF Cut
    <3>2. /\ Append(<<1>>, 2) = <<1, 2>>
          /\ Append(<<>>, 2) = <<2>>
      <4>1. Append(<<1>>, 2) = <<1, 2>>
        <5>1. <<1>> \in Seq(Nat) /\ Len(<<1>>) = 1 /\ <<1>>[1] = 1 /\ <<1, 2>> \in Seq(Nat)
              /\ Len(<<1, 2>>) = 2 /\ <<1, 2>>[1] = 1 /\ <<1, 2>>[2] = 2
          OBVIOUS
        <5>2. /\ Append(<<1>>, 2) \in Seq(Nat) /\ Len(Append(<<1>>, 2)) = 2
              /\ Append(<<1>>, 2)[1] = 1 /\ Append(<<1>>, 2)[2] = 2
          BY <5>1, AppendProperties
        <5>3. \A i \in 1..2 : Append(<<1>>, 2)[i] = <<1, 2>>[i]
          BY <5>1, <5>2
        <5> QED BY <5>1, <5>2, <5>3, SeqEqual
      <4>2. Append(<<>>, 2) = <<2>>
        OBVIOUS
      <4> QED BY <4>1, <4>2
    <3>3. reader'[1] = reader[1]
      BY <1>1, <2>4, RequestFacts
    <3>4. Late => Late'
      BY <1>1, <2>4, <3>2, <3>3 DEF Late, ValidationWaits, BeginsAnswer
    <3>5. Quiet(1) => Quiet(1)'
      BY <3>3 DEF Quiet
    <3> QED BY <1>3, <1>4, <1>6, <2>1, <2>2, <2>4, <3>1, <3>4, <3>5 DEF Two
  <2> QED BY <2>1, <2>3, <2>4
<1> QED BY <1>5, <1>6

LEMMA FailToWriteKeeps ==
  ASSUME Types, NEW k \in Request, FailToWrite(k), NEW c \in Request, current = c
  PROVE  /\ Alone(c) => Alone(c)'
         /\ c = 2 /\ Two => Two'
<1>1. /\ reader[k] = "writing" /\ (link = "closed" \/ process # "running")
      /\ UNCHANGED <<inbox, wire, buffer, process, link, current>>
      /\ reader'[k] = "error"
      /\ \A j \in Request \ {k} : reader'[j] = reader[j]
  BY DEF FailToWrite, Types, TypeOK
<1>2. ~Quiet(k) /\ \A j \in Request : Quiet(j) => Quiet(j)'
  BY <1>1 DEF Quiet
<1>3. Lost => Lost'
  BY <1>1 DEF Lost
<1>4. k = c /\ link = "closed" => Lost'
  BY <1>1 DEF Lost
<1>5. Stream(k) /\ process # "running" => Stream(k)'
  BY <1>1, StreamWrites
<1>6. Alone(c) => Alone(c)'
  BY <1>1, <1>2, <1>3, <1>4, <1>5 DEF Alone
<1>7. ASSUME c = 2, Two PROVE Two'
  <2>1. k \in {1, 2} /\ \A j \in Request \ {1, 2} : Quiet(j)'
    BY <1>2, <1>7 DEF Two
  <2>2. Spoiled => Spoiled'
    BY <1>1 DEF Spoiled
  <2>3. CASE k = 1
    <3>1. ~Late /\ ~Quiet(1)
      BY <1>1, <1>2, <2>3 DEF Late
    <3> QED BY <1>3, <1>7, <2>1, <2>2, <3>1 DEF Two
  <2>4. CASE k = 2
    <3>1. ~Cut
      BY <1>1, <2>4 DEF Cut
    <3>2. reader'[1] = reader[1]
      BY <1>1, <2>4, RequestFacts
    <3>3. Late /\ process # "running" => Late'
      BY <1>1, <2>4, <3>2 DEF Late, ValidationWaits, BeginsAnswer
    <3>4. Quiet(1) => Quiet(1)'
      BY <3>2 DEF Quiet
    <3> QED BY <1>1, <1>3, <1>4, <1>5, <1>7, <2>1, <2>2, <2>4, <3>1, <3>3, <3>4 DEF Two
  <2> QED BY <2>1, <2>3, <2>4
<1> QED BY <1>6, <1>7

LEMMA ReadKeeps ==
  ASSUME Types, Types', LockInv, NEW k \in Request, Read(k), NEW c \in Request, current = c
  PROVE  /\ Alone(c) => Alone(c)'
         /\ c = 2 /\ Two => Two'
<1>1. reader[k] = "reading"
  BY RequestFacts DEF LockInv, Read
<1>2. /\ link = "open" /\ UNCHANGED <<link, inbox, process, current>>
      /\ \A j \in Request \ {k} : buffer'[j] = buffer[j] /\ reader'[j] = reader[j]
  BY <1>1, ReadFacts
<1>3. ~Quiet(k) /\ \A j \in Request : Quiet(j) => Quiet(j)'
  BY <1>1, <1>2 DEF Quiet
<1>4. ~Lost
  BY <1>2 DEF Lost
<1>5. Stream(k) => Stream(k)'
  BY <1>1, StreamRead
<1>6. Alone(c) => Alone(c)'
  BY <1>3, <1>4, <1>5 DEF Alone
<1>7. ASSUME c = 2, Two PROVE Two'
  <2>1. k \in {1, 2} /\ \A j \in Request \ {1, 2} : Quiet(j)'
    BY <1>3, <1>7 DEF Two
  <2>2. 1 \in Request /\ 2 \in Request
    BY RequestFacts
  <2>3. CASE k = 1
    <3>1. Spoiled => Spoiled'
      BY <1>2, <2>2, <2>3 DEF Spoiled
    <3>2. ~Quiet(1)
      BY <1>3, <2>3
    <3>3. Late => Late' \/ (Quiet(1)' /\ (Stream(2)' \/ Cut'))
      BY <2>3, LateReads
    <3> QED BY <1>4, <1>7, <2>1, <3>1, <3>2, <3>3 DEF Two
  <2>4. CASE k = 2
    <3>1. Spoiled => Spoiled'
      <4> SUFFICES ASSUME Spoiled PROVE Spoiled'
        OBVIOUS
      <4>1. PICK n \in 1..Len(wire) :
              /\ Len(buffer'[2]) = Len(buffer[2]) + n
              /\ \A i \in 1..(Len(buffer[2]) + n) :
                   buffer'[2][i] = IF i <= Len(buffer[2]) THEN buffer[2][i]
                                   ELSE wire[i - Len(buffer[2])]
        BY <1>1, <2>4, ReadFacts
      <4>2. buffer[2] \in Seq(Piece) /\ buffer'[2] \in Seq(Piece) /\ Len(wire) \in Nat
        BY <1>1, <2>2, <2>4, ReadFacts DEF Types, TypeOK
      <4>3. Len(buffer[2]) \in Nat \ {0}
        BY <4>2, EmptyLen DEF Spoiled
      <4>4. buffer'[2][1] = buffer[2][1] /\ Len(buffer'[2]) # 0
        BY <4>1, <4>2, <4>3
      <4> QED BY <4>2, <4>4, EmptyLen DEF Spoiled
    <3>2. Late => Spoiled'
      BY <1>1, <2>4, LateSpoils
    <3>3. Cut => Cut'
      BY <1>1, <2>4, CutReads
    <3>4. Quiet(1) => Quiet(1)'
      BY <1>3, <2>2
    <3> QED BY <1>4, <1>5, <1>7, <2>1, <2>4, <3>1, <3>2, <3>3, <3>4 DEF Two
  <2> QED BY <2>1, <2>3, <2>4
<1> QED BY <1>6, <1>7

LEMMA MisreadKeeps ==
  ASSUME Types, NEW k \in Request, Misread(k), NEW c \in Request, current = c
  PROVE  /\ Alone(c) => Alone(c)'
         /\ c = 2 /\ Two => Two'
<1>1. /\ reader[k] = "reading" /\ buffer[k] # <<>> /\ buffer[k][1][2] # 1
      /\ UNCHANGED <<inbox, wire, buffer, process, link, current>>
      /\ reader'[k] = "error"
      /\ \A j \in Request \ {k} : reader'[j] = reader[j]
  BY DEF Misread, Types, TypeOK
<1>2. ~Quiet(k) /\ \A j \in Request : Quiet(j) => Quiet(j)'
  BY <1>1 DEF Quiet
<1>3. Lost => Lost'
  BY <1>1 DEF Lost
<1>4. ~Stream(k)
  BY StreamNotMisread
<1>5. Alone(c) => Alone(c)'
  BY <1>2, <1>3, <1>4 DEF Alone
<1>6. ASSUME c = 2, Two PROVE Two'
  <2>1. k \in {1, 2} /\ \A j \in Request \ {1, 2} : Quiet(j)'
    BY <1>2, <1>6 DEF Two
  <2>2. Spoiled => Spoiled'
    BY <1>1 DEF Spoiled
  <2>3. ~Late
    <3> SUFFICES ASSUME Late PROVE FALSE
      OBVIOUS
    <3>1. k = 1 /\ BeginsAnswer(buffer[1], 1) /\ buffer[1] \in Seq(Piece)
      BY <1>1, <2>1 DEF Late, Types, TypeOK
    <3>2. 1 \in DOMAIN buffer[1]
      BY <1>1, <3>1, EmptyLen, LenProperties
    <3>3. buffer[1][1] = <<1, 1>>
      BY <3>1, <3>2 DEF BeginsAnswer
    <3> QED BY <1>1, <3>1, <3>3
  <2>4. CASE k = 1
    BY <1>2, <1>3, <1>6, <2>1, <2>2, <2>3, <2>4 DEF Two
  <2>5. CASE k = 2
    <3>1. Cut => Cut'
      BY <1>1, <2>5 DEF Cut
    <3>2. Quiet(1) => Quiet(1)'
      BY <1>2, RequestFacts
    <3> QED BY <1>3, <1>4, <1>6, <2>1, <2>2, <2>3, <2>5, <3>1, <3>2 DEF Two
  <2> QED BY <2>1, <2>4, <2>5
<1> QED BY <1>5, <1>6

LEMMA FailToReadKeeps ==
  ASSUME Types, NEW k \in Request, FailToRead(k), NEW c \in Request, current = c
  PROVE  /\ Alone(c) => Alone(c)'
         /\ c = 2 /\ Two => Two'
<1>1. /\ reader[k] = "reading" /\ link' = "closed"
      /\ UNCHANGED <<inbox, wire, buffer, process, current>>
      /\ reader'[k] = "error"
      /\ \A j \in Request \ {k} : reader'[j] = reader[j]
  BY DEF FailToRead, Types, TypeOK
<1>2. ~Quiet(k) /\ \A j \in Request : Quiet(j) => Quiet(j)'
  BY <1>1 DEF Quiet
<1>3. k = c => Lost'
  BY <1>1 DEF Lost
<1>4. reader[c] # "answered" => Lost'
  BY <1>1 DEF Lost
<1>5. Alone(c) => Alone(c)'
  BY <1>2, <1>3 DEF Alone
<1>6. ASSUME c = 2, Two PROVE Two'
  <2>1. k \in {1, 2} /\ \A j \in Request \ {1, 2} : Quiet(j)'
    BY <1>2, <1>6 DEF Two
  <2>2. Spoiled => Spoiled'
    BY <1>1 DEF Spoiled
  <2>3. Late \/ Lost => reader[c] # "answered"
    BY <1>6 DEF Late, ValidationWaits, Lost
  <2>4. k = 1 => ~Quiet(1)
    BY <1>2
  <2> QED BY <1>3, <1>4, <1>6, <2>1, <2>2, <2>3, <2>4 DEF Two
<1> QED BY <1>5, <1>6

-----------------------------------------------------------------------------
(* Every answer that is taken.                                             *)

\* The next request finds nothing on its way.
LEMMA NextAlone ==
  ASSUME Types, Unused, NEW c \in Request, current = c, c + 1 \in Request, current' = c + 1,
         UNCHANGED <<link, process, reader, inbox, wire, buffer>>,
         reader[c] \in {"answered", "error"},
         \A j \in Request \ {c} : Quiet(j),
         Stream(c) \/ Lost
  PROVE  Alone(c + 1)'
<1>1. c + 1 > current /\ c + 1 # c
  BY RequestFacts
<1>2. reader[c + 1] = "none" /\ buffer[c + 1] = <<>>
  BY <1>1 DEF Unused
<1>3. \A j \in Request : Quiet(j)'
  BY DEF Quiet
<1>4. Lost => Lost'
  BY <1>2 DEF Lost
<1>5. Stream(c) => Stream(c + 1)'
  BY <1>2 DEF Stream, Silent
<1> QED BY <1>3, <1>4, <1>5 DEF Alone

LEMMA ConcludeFacts ==
  ASSUME Types, NEW answer, NEW accepted \in BOOLEAN, Conclude(answer, accepted)
  PROVE  /\ given' = [given EXCEPT ![current] = answer]
         /\ valid' => valid /\ (Kind(current) = "validation" => Passes(current, answer, accepted))
         /\ pc' = "asking" => current' = current + 1
         /\ pc' \in {"asking", "parallel", "stopping"}
         /\ current' \in {current, current + 1}
BY DEF Conclude

\* With something to validate, the second request is the first validation.
LEMMA KindFacts ==
  ASSUME Validations > 0
  PROVE  /\ Kind(1) = "names" /\ Kind(2) = "validation" /\ Timed(1) /\ Timed(2)
         /\ \A k \in Request : Timed(k) /\ k # 1 => Kind(k) = "validation"
BY SessionAssumption DEF Kind, Timed, Request

LEMMA TakeKeeps ==
  ASSUME Validations > 0, Types, Types', Unused, Valid, pc = "asking",
         NEW answer, NEW accepted \in BOOLEAN, Conclude(answer, accepted),
         reader[current] \in {"answered", "error"},
         answer = IF reader[current] = "answered" THEN buffer[current][1][1] ELSE 0,
         UNCHANGED <<link, process, reader, inbox, wire, buffer>>
  PROVE  /\ ~Timed(current) => answer \in {0, current}
         /\ Valid'
<1>0. current \in Request
  BY DEF Types, TypeOK
<1> PICK c \in Request : current = c
  BY <1>0
<1>1. c \in Request /\ current' \in Request /\ c \in Nat
  BY RequestFacts DEF Types, TypeOK
<1>2. valid => IF c = 2 THEN Two ELSE Alone(c)
  BY DEF Valid
<1>3. ASSUME ~Timed(c) PROVE answer \in {0, c}
  <2>1. valid /\ c # 2
    BY <1>3, KindFacts DEF Types, FailsBefore
  <2>2. Alone(c)
    BY <1>2, <2>1
  <2>3. reader[c] = "answered" => buffer[c][1] = <<c, 1>>
    BY <2>2 DEF Alone, Stream, Lost
  <2> QED BY <2>3
<1>4. ASSUME valid', pc' \in {"connecting", "asking"}
      PROVE  IF current' = 2 THEN Two' ELSE Alone(current)'
  <2>1. /\ valid /\ (Kind(c) = "validation" => Passes(c, answer, accepted))
        /\ current' = c + 1
    BY <1>4, ConcludeFacts
  <2>2. CASE c = 1
    <3>1. Alone(1) /\ 2 \in Request /\ 1 \in Request
      BY <1>2, <2>1, <2>2, RequestFacts
    <3>2. reader[2] = "none" /\ buffer[2] = <<>>
      BY <2>2, <3>1 DEF Unused
    <3>3. \A j \in Request : Quiet(j)'
      BY <2>2, <3>1 DEF Alone, Quiet
    <3>4. Lost => Lost'
      BY <2>1, <2>2, <3>2 DEF Lost
    <3>5. Stream(1) => Stream(2)'
      BY <2>2, <3>2 DEF Stream, Silent
    <3>6. Two'
      BY <3>1, <3>3, <3>4, <3>5 DEF Alone, Two
    <3> QED BY <2>1, <2>2, <3>6
  <2>3. CASE c # 1
    <3>1. c + 1 # 2 /\ c + 1 \in Request
      BY <1>1, <2>1, <2>3
    <3>2. (\A j \in Request \ {c} : Quiet(j)) /\ (Stream(c) \/ Lost)
      <4>1. CASE c = 2
        <5>1. Two /\ Passes(2, answer, accepted)
          BY <1>2, <2>1, <4>1, KindFacts
        <5>2. answer # 0 /\ Kind(answer) = "validation"
          BY <5>1, KindFacts DEF Passes
        <5>3. reader[2] = "answered" /\ answer = buffer[2][1][1]
          BY <4>1, <5>2
        <5>4. ~Late
          BY <5>3 DEF Late, ValidationWaits
        <5>5. ~Spoiled
          BY <5>2, <5>3, KindFacts DEF Spoiled
        <5>6. ~Lost /\ ~Cut
          BY <4>1, <5>3 DEF Lost, Cut
        <5>7. Quiet(1) /\ Stream(2) /\ \A k \in Request \ {1, 2} : Quiet(k)
          BY <5>1, <5>4, <5>5, <5>6 DEF Two
        <5> QED BY <4>1, <5>7
      <4>2. CASE c # 2
        BY <1>2, <2>1, <4>2 DEF Alone
      <4> QED BY <4>1, <4>2
    <3>3. Alone(c + 1)'
      BY <1>1, <2>1, <3>1, <3>2, NextAlone
    <3>4. Alone(current)'
      BY <2>1, <3>3 DEF Alone, Stream, InStep
    <3> QED BY <2>1, <3>1, <3>4
  <2> QED BY <2>2, <2>3
<1>5. Valid'
  BY <1>4 DEF Valid
<1> QED BY <1>3, <1>5

LEMMA TimeoutKeeps ==
  ASSUME Validations > 0, Types, Unused, Valid, RequestTimeout
  PROVE  Valid'
<1>1. /\ pc = "asking" /\ Timed(current) /\ reader[current] = "reading"
      /\ Conclude(0, FALSE)
      /\ UNCHANGED <<link, process, reader, inbox, wire, buffer>>
  BY DEF RequestTimeout
<1>2. current \in Request
  BY DEF Types, TypeOK
<1> SUFFICES ASSUME valid', pc' \in {"connecting", "asking"}
             PROVE  IF current' = 2 THEN Two' ELSE Alone(current)'
  BY DEF Valid
<1>3. /\ valid /\ (Kind(current) = "validation" => Passes(current, 0, FALSE))
      /\ current' = current + 1
  BY <1>1, ConcludeFacts
<1>4. current = 1 /\ current' = 2
  BY <1>1, <1>2, <1>3, KindFacts DEF Passes
<1>5. Alone(1) /\ 1 \in Request /\ 2 \in Request
  BY <1>1, <1>3, <1>4, RequestFacts DEF Valid
<1>6. reader[2] = "none" /\ buffer[2] = <<>>
  BY <1>4, <1>5 DEF Unused
<1>7. \A k \in Request \ {1, 2} : Quiet(k)'
  BY <1>1, <1>5 DEF Alone, Quiet
<1>8. Lost => Lost'
  BY <1>1, <1>4, <1>6 DEF Lost
<1>9. Stream(1) => Late'
  <2>1. CASE inbox = <<1>> /\ wire = <<>> /\ buffer[1] = <<>>
    BY <1>1, <1>4, <1>6, <2>1 DEF Late, ValidationWaits
  <2>2. CASE inbox = <<>> /\ InStep(1)
    <3>1. Len(wire) \in Nat /\ DOMAIN wire = 1..Len(wire)
      BY LenProperties DEF Types, TypeOK
    <3>2. \A n \in DOMAIN wire : n <= Parts - Len(buffer[1])
      BY <2>2, <3>1 DEF InStep
    <3> QED BY <1>1, <1>4, <1>6, <2>2, <3>2 DEF Late, InStep, BeginsAnswer
  <2> QED BY <1>1, <1>4, <2>1, <2>2 DEF Stream
<1>10. Two'
  BY <1>5, <1>7, <1>8, <1>9 DEF Alone, Two
<1> QED BY <1>4, <1>10

LEMMA LockStep ==
  ASSUME Types, LockInv, Next
  PROVE  LockInv'
<1>1. TypeOK
  BY DEF Types
<1>2. CASE MainStep
  <2>1. CASE Ask
    BY <1>1, <2>1 DEF Ask, LockInv, TypeOK
  <2>2. lock' = lock /\ (Ask \/ reader' = reader)
    BY <1>2 DEF MainStep, Connected, RunnerDied, ConnectTimeout, RejectTableRows,
       FinishParallel, Exit, Ask, TakeAnswer,
         RequestTimeout, BeginKill, SeeExit, KillTimeout, exchange
  <2> QED BY <2>1, <2>2 DEF LockInv
<1>3. CASE Reap \/ Accept \/ Answer
  BY <1>3 DEF Reap, Accept, Answer, exchange, LockInv
<1>4. ASSUME NEW k \in Request, ReaderStep(k) PROVE LockInv'
  BY <1>1, <1>4 DEF ReaderStep, WriteRequest, FailToWrite, EnterRead, Read, Misread, FailToRead,
       LockInv, TypeOK
<1>5. ASSUME NEW how \in {"exited", "failed", "signalled"}, RunnerEnds(how) PROVE LockInv'
  BY <1>5 DEF RunnerEnds, exchange, LockInv
<1> QED BY <1>2, <1>3, <1>4, <1>5 DEF Next

LEMMA UnusedConclude ==
  ASSUME Types, Types', Unused, NEW answer, NEW accepted \in BOOLEAN, Conclude(answer, accepted),
         UNCHANGED <<reader, buffer>>
  PROVE  Unused'
<1>1. current \in Request /\ current \in Nat /\ current' \in {current, current + 1}
  BY ConcludeFacts, RequestFacts DEF Types, TypeOK
<1>2. given' = [given EXCEPT ![current] = answer]
  BY ConcludeFacts
<1>3. ASSUME NEW k \in Request, k > current'
      PROVE  reader'[k] = "none" /\ buffer'[k] = <<>> /\ given'[k] = 0
  <2>1. k > current /\ k # current
    BY <1>1, <1>3, RequestFacts
  <2> QED BY <1>2, <2>1 DEF Unused, Types, TypeOK
<1> QED BY <1>3 DEF Unused

LEMMA UnusedReader ==
  ASSUME Types, Unused, LockInv, NEW k \in Request, ReaderStep(k)
  PROVE  Unused'
<1>1. /\ current' = current /\ given' = given
      /\ \A j \in Request \ {k} : reader'[j] = reader[j] /\ buffer'[j] = buffer[j]
  <2>1. CASE Read(k)
    BY <2>1, ReadFacts, RequestFacts DEF LockInv, Read
  <2> QED BY <2>1 DEF ReaderStep, WriteRequest, FailToWrite, EnterRead, Misread, FailToRead,
            Types, TypeOK
<1>2. ~(k > current) \/ EnterRead(k)
  <2>1. reader[k] # "none"
    BY RequestFacts DEF ReaderStep, WriteRequest, FailToWrite, EnterRead, Read, Misread,
         FailToRead, LockInv
  <2> QED BY <2>1 DEF Unused
<1>3. EnterRead(k) => UNCHANGED <<reader, buffer>>
  BY DEF EnterRead
<1>4. ASSUME NEW j \in Request, j > current
      PROVE  reader'[j] = "none" /\ buffer'[j] = <<>> /\ given'[j] = 0
  BY <1>1, <1>2, <1>3, <1>4 DEF Unused
<1> QED BY <1>1, <1>4 DEF Unused

LEMMA AnswersInit == Init => AnswersInv
<1> SUFFICES ASSUME Init PROVE AnswersInv
  OBVIOUS
<1>1. 1 \in Request
  BY RequestFacts
<1>2. Alone(1)
  BY <1>1 DEF Init, Alone, Quiet, Stream, Silent
<1>3. Unused /\ LockInv /\ ExecutionGetsItsAnswers /\ link = "none"
      /\ \A k \in Request : reader[k] = "none"
  BY DEF Init, Unused, LockInv, ExecutionGetsItsAnswers
<1>4. Valid
  BY <1>2 DEF Valid, Init, Alone, Stream, InStep
<1> QED BY <1>3, <1>4 DEF AnswersInv

\* A step that leaves the main goroutine where it is.
LEMMA ValidSame ==
  ASSUME Types, Valid, UNCHANGED <<current, valid>>,
         pc' \in {"connecting", "asking"} => pc \in {"connecting", "asking"},
         \A c \in Request : current = c => (Alone(c) => Alone(c)') /\ (c = 2 /\ Two => Two')
  PROVE  Valid'
<1>1. PICK c \in Request : current = c
  BY DEF Types, TypeOK
<1>2. current' = c
  BY <1>1
<1>3. valid' /\ pc' \in {"connecting", "asking"} => IF c = 2 THEN Two' ELSE Alone(c)'
  BY <1>1 DEF Valid
<1>4. Alone(c)' => Alone(current)'
  BY <1>2 DEF Alone, Stream, InStep
<1> QED BY <1>2, <1>3, <1>4 DEF Valid

LEMMA AnswersStep ==
  ASSUME Validations > 0
  PROVE  Types /\ Types' /\ AnswersInv /\ [Next]_vars => AnswersInv'
<1> SUFFICES ASSUME Types, Types', AnswersInv, [Next]_vars PROVE AnswersInv'
  OBVIOUS
<1>1. /\ Unused /\ LockInv /\ Valid /\ ExecutionGetsItsAnswers
      /\ pc = "connecting" => link = "none" /\ \A k \in Request : reader[k] = "none"
  BY DEF AnswersInv
<1>2. ASSUME NEW k \in Request, ReaderStep(k) PROVE AnswersInv'
  <2>1. UNCHANGED <<pc, current, valid, given>>
    BY <1>2 DEF ReaderStep, WriteRequest, FailToWrite, EnterRead, Read, Misread, FailToRead
  <2>2. ASSUME NEW c \in Request, current = c
        PROVE  (Alone(c) => Alone(c)') /\ (c = 2 /\ Two => Two')
    <3>1. CASE EnterRead(k)
      BY <3>1, Elsewhere DEF EnterRead
    <3> QED BY <1>1, <1>2, <2>2, <3>1, WriteKeeps, FailToWriteKeeps, ReadKeeps, MisreadKeeps,
               FailToReadKeeps DEF ReaderStep
  <2>3. Valid'
    BY <1>1, <2>1, <2>2, ValidSame
  <2>4. Unused' /\ LockInv'
    BY <1>1, <1>2, UnusedReader, LockStep DEF Next
  <2>5. pc' # "connecting"
    <3>1. reader[k] # "none"
      BY <1>1, <1>2, RequestFacts DEF ReaderStep, WriteRequest, FailToWrite, EnterRead, Read,
         Misread, FailToRead, LockInv
    <3> QED BY <1>1, <2>1, <3>1
  <2> QED BY <1>1, <2>1, <2>3, <2>4, <2>5 DEF AnswersInv, ExecutionGetsItsAnswers
<1>3. CASE Next /\ ~(\E k \in Request : ReaderStep(k))
  <2>1. LockInv'
    BY <1>1, <1>3, LockStep
  <2>2. CASE TakeAnswer
    <3>1. PICK accepted \in BOOLEAN :
            Conclude(IF reader[current] = "answered" THEN buffer[current][1][1] ELSE 0, accepted)
      BY <2>2 DEF TakeAnswer
    <3>2. /\ pc = "asking" /\ reader[current] \in {"answered", "error"}
          /\ UNCHANGED <<process, waiter, acceptor, link, reader, inbox, wire, lock, buffer>>
      BY <2>2 DEF TakeAnswer
    <3> DEFINE answer == IF reader[current] = "answered" THEN buffer[current][1][1] ELSE 0
    <3>3. Conclude(answer, accepted)
      BY <3>1
    <3>4. answer = IF reader[current] = "answered" THEN buffer[current][1][1] ELSE 0
      OBVIOUS
    <3> HIDE DEF answer
    <3>5. (~Timed(current) => answer \in {0, current}) /\ Valid'
      BY <1>1, <3>2, <3>3, <3>4, TakeKeeps
    <3>6. given' = [given EXCEPT ![current] = answer] /\ pc' # "connecting"
      BY <3>3, ConcludeFacts
    <3>7. ExecutionGetsItsAnswers'
      BY <1>1, <3>5, <3>6 DEF ExecutionGetsItsAnswers, Timed, Types, TypeOK
    <3>8. Unused'
      BY <1>1, <3>2, <3>3, UnusedConclude
    <3> QED BY <2>1, <3>5, <3>6, <3>7, <3>8 DEF AnswersInv
  <2>3. CASE RequestTimeout
    <3>1. Conclude(0, FALSE) /\ UNCHANGED <<reader, buffer>>
      BY <2>3 DEF RequestTimeout
    <3>2. given' = [given EXCEPT ![current] = 0] /\ pc' # "connecting"
      BY <3>1, ConcludeFacts
    <3>3. ExecutionGetsItsAnswers'
      BY <1>1, <3>2 DEF ExecutionGetsItsAnswers, Timed, Types, TypeOK
    <3>4. Unused' /\ Valid'
      BY <1>1, <2>3, <3>1, UnusedConclude, TimeoutKeeps
    <3> QED BY <2>1, <3>2, <3>3, <3>4 DEF AnswersInv
  <2>4. CASE Ask
    <3>1. UNCHANGED <<pc, current, valid, given, link, buffer>> /\ pc = "asking"
      BY <2>4 DEF Ask
    <3>2. Valid'
      BY <1>1, <2>4, <3>1, AskKeeps, ValidSame
    <3>3. Unused'
      <4>1. \A j \in Request : j > current => reader'[j] = reader[j]
        BY <2>4, RequestFacts DEF Ask, Types, TypeOK
      <4> QED BY <1>1, <3>1, <4>1 DEF Unused
    <3> QED BY <1>1, <2>1, <3>1, <3>2, <3>3 DEF AnswersInv, ExecutionGetsItsAnswers
  <2>5. CASE Answer
    <3>1. UNCHANGED <<pc, current, valid, given, link, buffer, reader>>
      BY <2>5, AnswerFacts
    <3>2. Valid'
      BY <1>1, <2>5, <3>1, AnswerKeeps, ValidSame
    <3> QED BY <1>1, <2>1, <3>1, <3>2 DEF AnswersInv, ExecutionGetsItsAnswers, Unused
  <2>6. CASE Connected \/ RunnerDied \/ ConnectTimeout \/ RejectTableRows \/ FinishParallel
             \/ BeginKill \/ SeeExit \/ KillTimeout
             \/ Reap \/ Accept \/ \E how \in {"exited", "failed", "signalled"} : RunnerEnds(how)
    <3>1. UNCHANGED exchange
      BY <2>6 DEF Connected, RunnerDied, ConnectTimeout, RejectTableRows, FinishParallel, Exit,
           BeginKill, SeeExit, KillTimeout, Reap, Accept, RunnerEnds
    <3>2. /\ process # "running" => process' # "running"
          /\ pc' \in {"connecting", "asking"} => pc \in {"connecting", "asking"}
          /\ pc' = "connecting" => pc = "connecting" /\ link' = link
          /\ link = "closed" => link' = "closed"
      BY <1>1, <2>6 DEF Connected, RunnerDied, ConnectTimeout, RejectTableRows, FinishParallel,
           Exit, BeginKill, SeeExit, KillTimeout, Reap, Accept, RunnerEnds, KillProcess
    <3>3. Valid'
      BY <1>1, <3>1, <3>2, Elsewhere, ValidSame DEF exchange
    <3> QED BY <1>1, <2>1, <3>1, <3>2, <3>3 DEF AnswersInv, ExecutionGetsItsAnswers, Unused,
               exchange
  <2> QED BY <1>3, <2>2, <2>3, <2>4, <2>5, <2>6 DEF Next, MainStep
<1>4. CASE UNCHANGED vars
  <2>1. Valid'
    BY <1>1, <1>4, Elsewhere, ValidSame DEF vars
  <2> QED BY <1>1, <1>4, <2>1 DEF AnswersInv, ExecutionGetsItsAnswers, Unused, LockInv, vars
<1> QED BY <1>2, <1>3, <1>4

\* A hook or a step that is given an answer is given its own, for any number of requests and
\* pieces, when there is a step to validate: without one, a names request that timed out can
\* put every later request out of step.
THEOREM OwnAnswers ==
  ASSUME Validations > 0
  PROVE  Spec => []ExecutionGetsItsAnswers
<1>1. AnswersInv => ExecutionGetsItsAnswers
  BY DEF AnswersInv
<1> QED BY <1>1, TypesHold, TypesStep, AnswersInit, AnswersStep, PTL DEF Spec

-----------------------------------------------------------------------------
(* Framing.                                                                *)

Message == [length : Nat \ {0}, end : Nat]

\* Where messages end.
EndsInv ==
  /\ sent \in Seq(Message)
  /\ \A k \in DOMAIN sent :
       Boundary(k) = Boundary(k - 1) + HeaderSize(sent[k].length) + sent[k].length
  /\ \A j, k \in 0..Len(sent) : j < k => Boundary(j) < Boundary(k)

\* What was taken ends with a message, and what is there and not looked at does not reach
\* the end of the next.
TakenInv ==
  /\ arrived \in Nat /\ arrived <= Boundary(Len(sent))
  /\ handed \in 0..Len(sent)
  /\ processing \in BOOLEAN /\ garbled \in BOOLEAN
  /\ ~garbled => taken = Boundary(handed) /\ taken <= arrived
  /\ ~garbled /\ ~processing => handed = Len(sent) \/ arrived < Boundary(handed + 1)
  /\ garbled => /\ ~processing /\ handed > 0
                /\ Boundary(handed) - HeaderSize(sent[handed].length) < arrived
                /\ arrived < Boundary(handed)

FramingInv == EndsInv /\ TakenInv

LEMMA HeaderSizes == ASSUME NEW length PROVE HeaderSize(length) \in {1, 2, 3}
BY DEF HeaderSize

LEMMA BoundaryTypes ==
  ASSUME EndsInv
  PROVE  /\ Len(sent) \in Nat /\ DOMAIN sent = 1..Len(sent)
         /\ \A k \in 0..Len(sent) : Boundary(k) \in Nat
         /\ \A k \in 1..Len(sent) : sent[k] \in Message /\ Boundary(k) = sent[k].end
                                    /\ sent[k].length \in Nat \ {0}
<1>1. Len(sent) \in Nat /\ DOMAIN sent = 1..Len(sent)
  BY LenProperties DEF EndsInv
<1>2. \A k \in 1..Len(sent) : sent[k] \in Message
  BY ElementOfSeq DEF EndsInv
<1>3. \A k \in 1..Len(sent) : k # 0
  BY <1>1
<1> QED BY <1>1, <1>2, <1>3 DEF Boundary, Message

LEMMA WriteInv ==
  ASSUME FramingInv, NEW length \in Lengths, Write(length), NEW n, n = Len(sent)
  PROVE  FramingInv'
<1> DEFINE end == Boundary(n) + HeaderSize(length) + length
           message == [length |-> length, end |-> end]
<1>1. /\ sent' = Append(sent, message)
      /\ peer' = peer /\ arrived' = arrived /\ taken' = taken /\ handed' = handed
      /\ processing' = processing /\ garbled' = garbled
  BY DEF Write
<1>2. /\ n \in Nat /\ DOMAIN sent = 1..n
      /\ \A k \in 0..n : Boundary(k) \in Nat
      /\ \A k \in 1..n : sent[k] \in Message /\ sent[k].length \in Nat \ {0}
  BY BoundaryTypes DEF FramingInv
<1>3. length \in Nat \ {0} /\ HeaderSize(length) \in {1, 2, 3}
  BY LengthsAssumption, HeaderSizes
<1>4. end \in Nat /\ end > Boundary(n) /\ message \in Message
  <2>1. Boundary(n) \in Nat
    BY <1>2
  <2>2. Boundary(n) + HeaderSize(length) + length \in Nat
        /\ Boundary(n) + HeaderSize(length) + length > Boundary(n)
    BY <1>3, <2>1
  <2> QED BY <1>3, <2>2 DEF Message
<1>5. /\ sent' \in Seq(Message) /\ Len(sent') = n + 1 /\ DOMAIN sent' = 1..(n + 1)
      /\ \A k \in 1..n : sent'[k] = sent[k]
      /\ sent'[n + 1] = message
  <2>1. sent \in Seq(Message)
    BY DEF FramingInv, EndsInv
  <2> HIDE DEF message
  <2> QED BY <1>1, <1>2, <1>4, <2>1, AppendProperties
<1>6. /\ \A k \in 0..n : Boundary(k)' = Boundary(k)
      /\ Boundary(n + 1)' = end
  <2>1. ASSUME NEW k \in 0..n PROVE Boundary(k)' = Boundary(k)
    BY <1>2, <1>5 DEF Boundary
  <2>2. n + 1 # 0 /\ sent'[n + 1].end = end
    BY <1>2, <1>5
  <2> QED BY <2>1, <2>2 DEF Boundary
<1> HIDE DEF end
<1>7. \A k \in DOMAIN sent' :
        Boundary(k)' = Boundary(k - 1)' + HeaderSize(sent'[k].length) + sent'[k].length
  <2> SUFFICES ASSUME NEW k \in 1..(n + 1)
               PROVE  Boundary(k)' = Boundary(k - 1)' + HeaderSize(sent'[k].length) + sent'[k].length
    BY <1>5
  <2>1. CASE k = n + 1
    <3>1. k - 1 = n /\ n \in 0..n
      BY <1>2, <2>1
    <3>2. Boundary(n)' = Boundary(n) /\ Boundary(n + 1)' = end
      BY <1>6, <3>1
    <3>3. sent'[k].length = length
      BY <1>5, <2>1
    <3> QED BY <2>1, <3>1, <3>2, <3>3 DEF end
  <2>2. CASE k \in 1..n
    <3>1. k - 1 \in 0..n /\ k \in 0..n
      BY <1>2, <2>2
    <3>2. Boundary(k)' = Boundary(k) /\ Boundary(k - 1)' = Boundary(k - 1) /\ sent'[k] = sent[k]
      BY <1>5, <1>6, <2>2, <3>1
    <3> QED BY <1>2, <2>2, <3>2 DEF FramingInv, EndsInv
  <2> QED BY <1>2, <2>1, <2>2
<1>8. ASSUME NEW j \in 0..(n + 1), NEW k \in 0..(n + 1), j < k
      PROVE  Boundary(j)' < Boundary(k)'
  <2>1. CASE k \in 0..n
    <3>1. j \in 0..n
      BY <1>2, <1>8, <2>1
    <3> QED BY <1>6, <1>8, <2>1, <3>1 DEF FramingInv, EndsInv
  <2>2. CASE k = n + 1
    <3>1. j \in 0..n /\ n \in 0..n
      BY <1>2, <1>8, <2>2
    <3>2. Boundary(j) <= Boundary(n)
      <4>1. j = n \/ j < n
        BY <1>2, <3>1
      <4> QED BY <1>2, <3>1, <4>1 DEF FramingInv, EndsInv
    <3>3. Boundary(j)' = Boundary(j) /\ Boundary(k)' = end
      BY <1>6, <2>2, <3>1
    <3> QED BY <1>2, <1>4, <3>1, <3>2, <3>3
  <2> QED BY <1>2, <2>1, <2>2
<1>9. EndsInv'
  BY <1>5, <1>7, <1>8 DEF EndsInv
<1>10. TakenInv'
  <2> SUFFICES ASSUME NEW h, h = handed
               PROVE  TakenInv'
    OBVIOUS
  <2>1. h \in 0..n /\ arrived \in Nat /\ arrived <= Boundary(n)
    BY DEF FramingInv, TakenInv
  <2>2. Boundary(h)' = Boundary(h) /\ handed' = h
    BY <1>1, <1>6, <2>1
  <2>3. arrived <= Boundary(n + 1)' /\ Len(sent') = n + 1
    BY <1>2, <1>4, <1>5, <1>6, <2>1
  <2>4. h \in 0..(n + 1)
    BY <1>2, <2>1
  <2>5. ~garbled /\ ~processing => arrived < Boundary(h + 1)'
    <3>1. CASE h = n
      BY <1>2, <1>4, <1>6, <2>1, <3>1
    <3>2. CASE h # n
      <4>1. h + 1 \in 0..n
        BY <1>2, <2>1, <3>2
      <4>2. Boundary(h + 1)' = Boundary(h + 1)
        BY <1>6, <4>1
      <4> QED BY <3>2, <4>2 DEF FramingInv, TakenInv
    <3> QED BY <3>1, <3>2
  <2>6. garbled => sent'[h] = sent[h]
    <3>1. garbled => h \in 1..n
      BY <1>2, <2>1 DEF FramingInv, TakenInv
    <3> QED BY <1>5, <3>1
  <2>7. arrived' = arrived /\ taken' = taken /\ processing' = processing /\ garbled' = garbled
    BY <1>1
  <2> QED BY <2>1, <2>2, <2>3, <2>4, <2>5, <2>6, <2>7 DEF FramingInv, TakenInv, HeaderSize
<1> QED BY <1>9, <1>10 DEF FramingInv

LEMMA FramingStep == FramingInv /\ [FramingNext]_framing => FramingInv'
<1> SUFFICES ASSUME FramingInv, [FramingNext]_framing PROVE FramingInv'
  OBVIOUS
<1>1. CASE \E length \in Lengths : Write(length)
  <2> SUFFICES ASSUME NEW n, n = Len(sent) PROVE FramingInv'
    OBVIOUS
  <2> QED BY <1>1, WriteInv
<1>2. CASE sent' = sent /\ (Take \/ ReadOn \/ UNCHANGED framing
                            \/ \E m \in 1..Boundary(Len(sent)) : Receive(m))
  <2> SUFFICES ASSUME NEW n, n = Len(sent), NEW h, h = handed PROVE FramingInv'
    OBVIOUS
  <2> DEFINE here == Boundary(h)
             following == Boundary(h + 1)
             size == HeaderSize(MessageLength)
  <2>1. /\ n \in Nat /\ arrived \in Nat /\ h \in 0..n
        /\ \A k \in 0..n : Boundary(k) \in Nat
        /\ processing \in BOOLEAN /\ garbled \in BOOLEAN
    BY BoundaryTypes DEF FramingInv, TakenInv
  <2>2. /\ \A k : Boundary(k)' = Boundary(k)
        /\ Len(sent') = n
    BY <1>2 DEF Boundary
  <2>3. EndsInv'
    BY <1>2, <2>2 DEF FramingInv, EndsInv, Boundary, HeaderSize
  <2>4. h # n => /\ following \in Nat /\ MessageLength \in Nat \ {0} /\ size \in {1, 2, 3}
                 /\ following = here + size + MessageLength
    <3> SUFFICES ASSUME h # n
                 PROVE  /\ following \in Nat /\ MessageLength \in Nat \ {0} /\ size \in {1, 2, 3}
                        /\ following = here + size + MessageLength
      OBVIOUS
    <3>1. h + 1 \in 1..n /\ h + 1 \in 0..n /\ (h + 1) - 1 = h
      BY <2>1
    <3>2. MessageLength = sent[h + 1].length
      BY DEF MessageLength
    <3>3. following = Boundary((h + 1) - 1) + size + MessageLength
      BY <3>1, <3>2, BoundaryTypes DEF FramingInv, EndsInv
    <3>4. MessageLength \in Nat \ {0}
      BY <3>1, <3>2, BoundaryTypes DEF FramingInv
    <3> QED BY <2>1, <3>1, <3>3, <3>4, HeaderSizes
  <2>5. here \in Nat
    BY <2>1
  <2>6. ~garbled => taken = here /\ here <= arrived
    BY DEF FramingInv, TakenInv
  <2>7. CASE UNCHANGED framing
    BY <2>2, <2>3, <2>7 DEF framing, FramingInv, TakenInv, HeaderSize, Boundary
  <2>8. CASE \E m \in 1..Boundary(Len(sent)) : Receive(m)
    <3>1. PICK m \in 1..Boundary(n) : Receive(m)
      BY <2>8
    <3>2. /\ m \in Nat /\ arrived' = arrived + m /\ arrived + m <= Boundary(n) /\ ~garbled
          /\ taken' = taken /\ handed' = h /\ processing' = TRUE /\ garbled' = FALSE
      BY <2>1, <3>1 DEF Receive
    <3>3. here <= arrived + m /\ arrived + m \in Nat
      BY <2>1, <2>5, <2>6, <3>2
    <3> QED BY <2>1, <2>2, <2>3, <2>6, <3>2, <3>3 DEF FramingInv, TakenInv
  <2>9. CASE ReadOn
    <3>1. /\ processing /\ processing' = FALSE /\ ~garbled
          /\ arrived' = arrived /\ taken' = taken /\ handed' = h /\ garbled' = FALSE
      BY <2>1, <2>9 DEF ReadOn, FramingInv, TakenInv
    <3>2. h # n => arrived < following
      <4> SUFFICES ASSUME h # n, arrived >= following PROVE FALSE
        BY <2>1, <2>4
      <4>1. taken = here
        BY <2>6, <3>1
      <4>2. /\ MessageLength \in Nat \ {0} /\ size \in {1, 2, 3}
            /\ following = here + size + MessageLength
        BY <2>4
      <4> HIDE DEF here, following, size
      <4>3. arrived - here >= size /\ MessageLength < arrived - here
        BY <2>1, <2>5, <4>2
      <4>4. h < n
        BY <2>1
      <4>5. HeaderThere /\ MessageThere(MessageLength)
        BY <4>1, <4>3, <4>4 DEF HeaderThere, MessageThere, Buffered, size
      <4> QED BY <2>9, <4>5 DEF ReadOn
    <3>3. arrived <= Boundary(n)
      BY DEF FramingInv, TakenInv
    <3> QED BY <2>1, <2>2, <2>3, <2>6, <3>1, <3>2, <3>3 DEF FramingInv, TakenInv
  <2>10. CASE Take
    <3> DEFINE whole == arrived >= following
    <3>1. /\ processing /\ h < n /\ MessageLength < arrived - taken
          /\ handed' = h + 1 /\ arrived' = arrived
          /\ taken' = (IF whole THEN following ELSE arrived)
          /\ garbled' = ~whole
          /\ processing' = (whole /\ arrived > following)
      BY <2>10 DEF Take, HeaderThere, MessageThere, Buffered
    <3>2. ~garbled /\ taken = here /\ h # n /\ h + 1 \in 0..n /\ h + 1 > 0
      BY <2>1, <2>6, <3>1 DEF FramingInv, TakenInv
    <3>3. following \in Nat /\ arrived <= Boundary(n)
      BY <2>4, <3>2 DEF FramingInv, TakenInv
    <3>4. CASE whole
      <4>1. garbled' = FALSE /\ taken' = following
        BY <3>1, <3>4
      <4>2. h + 1 # n => following < Boundary((h + 1) + 1)
        <5>1. h + 1 # n => (h + 1) + 1 \in 0..n /\ h + 1 < (h + 1) + 1
          BY <2>1, <3>2
        <5> QED BY <3>2, <5>1 DEF FramingInv, EndsInv
      <4> HIDE DEF following
      <4>3. ~processing' => arrived = following
        <5>1. CASE arrived > following
          BY <3>1, <3>4, <5>1
        <5>2. CASE ~(arrived > following)
          BY <2>1, <3>3, <3>4, <5>2
        <5> QED BY <5>1, <5>2
      <4>4. ~processing' => h + 1 = n \/ arrived < Boundary((h + 1) + 1)
        BY <4>2, <4>3
      <4>5. processing' \in BOOLEAN /\ following <= arrived
        <5>1. following <= arrived
          BY <2>1, <3>3, <3>4
        <5> QED BY <3>1, <5>1
      <4> HIDE DEF whole
      <4>6. following = Boundary(h + 1)
        BY DEF following
      <4> QED BY <2>1, <2>2, <2>3, <3>1, <3>2, <3>3, <4>1, <4>4, <4>5, <4>6 DEF FramingInv, TakenInv
    <3>5. CASE ~whole
      <4>1. garbled' = TRUE /\ processing' = FALSE
        <5> HIDE DEF following
        <5> QED BY <2>1, <3>1, <3>3, <3>5
      <4>2. arrived < following
        <5> HIDE DEF following
        <5> QED BY <2>1, <3>3, <3>5
      <4>3. following - size < arrived
        <5>1. /\ following = here + size + MessageLength /\ size \in {1, 2, 3}
              /\ MessageLength \in Nat /\ MessageLength < arrived - here
          BY <2>4, <3>1, <3>2
        <5> HIDE DEF following, here, size
        <5> QED BY <2>1, <2>5, <5>1
      <4>4. \A k : k = h + 1 => HeaderSize(sent'[k].length) = size
        BY <1>2 DEF HeaderSize, MessageLength
      <4>5. following = Boundary(h + 1)
        OBVIOUS
      <4> HIDE DEF following, whole, size
      <4> QED BY <2>1, <2>2, <2>3, <3>1, <3>2, <3>3, <4>1, <4>2, <4>3, <4>4, <4>5
              DEF FramingInv, TakenInv
    <3> QED BY <3>4, <3>5
  <2> QED BY <1>2, <2>7, <2>8, <2>9, <2>10
<1> QED BY <1>1, <1>2 DEF FramingNext, Take, ReadOn, Receive, framing

\* handleConnectionMessages, processMessage (conn/connectionHandler.go): whatever is sent
\* and wherever reads end, every message is handed on once it is there, whole and in step,
\* except one that is cut within as many bytes of its end as its header has more than one.
THEOREM MessagesInStep == FramingSpec => []FramesIntact
<1>1. FramingInit => FramingInv
  <2> SUFFICES ASSUME FramingInit PROVE FramingInv
    OBVIOUS
  <2>1. sent = <<>> /\ Len(sent) = 0 /\ sent \in Seq(Message) /\ DOMAIN sent = {} /\ 0..Len(sent) = {0}
    BY DEF FramingInit
  <2>2. Boundary(0) = 0
    BY DEF Boundary
  <2>3. EndsInv
    <3>1. \A j, k \in 0..Len(sent) : ~(j < k)
      BY <2>1
    <3> QED BY <2>1, <3>1 DEF EndsInv
  <2>4. Boundary(Len(sent)) = 0 /\ Boundary(handed) = 0 /\ handed = Len(sent)
    BY <2>1, <2>2 DEF FramingInit
  <2>5. /\ arrived = 0 /\ taken = 0 /\ handed = 0 /\ processing = FALSE /\ garbled = FALSE
    BY DEF FramingInit
  <2>6. arrived \in Nat /\ arrived <= Boundary(Len(sent)) /\ handed \in 0..Len(sent)
    BY <2>1, <2>4, <2>5
  <2>7. TakenInv
    BY <2>4, <2>5, <2>6 DEF TakenInv
  <2> QED BY <2>3, <2>7 DEF FramingInv
<1>2. FramingInv => FramesIntact
  <2> SUFFICES ASSUME FramingInv, NEW n, n = Len(sent), NEW h, h = handed PROVE FramesIntact
    OBVIOUS
  <2>1. /\ n \in Nat /\ h \in 0..n
        /\ Len(sent) \in Nat /\ arrived \in Nat /\ handed \in 0..Len(sent)
        /\ DOMAIN sent = 1..Len(sent)
        /\ \A k \in 0..Len(sent) : Boundary(k) \in Nat
    BY BoundaryTypes DEF FramingInv, TakenInv
  <2>2. CASE garbled
    <3>1. HeaderSize(sent[handed].length) \in {1, 2, 3} /\ Boundary(handed) \in Nat
      BY <2>1, HeaderSizes
    <3> QED BY <2>1, <2>2, <3>1 DEF FramingInv, TakenInv, FramesIntact
  <2>3. CASE ~garbled
    <3>1. ASSUME ~processing, NEW k \in DOMAIN sent, Boundary(k) <= arrived, ~(k <= handed)
          PROVE  FALSE
      <4>0. k \in 1..n /\ k > h
        BY <2>1, <3>1
      <4>1. handed + 1 \in 0..Len(sent) /\ k \in 0..Len(sent) /\ handed # Len(sent)
        BY <2>1, <4>0
      <4>2. Boundary(handed + 1) <= Boundary(k)
        <5>1. k = handed + 1 \/ handed + 1 < k
          BY <2>1, <4>0
        <5> QED BY <2>1, <4>1, <5>1 DEF FramingInv, EndsInv
      <4>3. arrived < Boundary(handed + 1)
        BY <2>3, <3>1, <4>1 DEF FramingInv, TakenInv
      <4>4. Boundary(handed + 1) \in Nat /\ Boundary(k) \in Nat
        BY <2>1, <4>1
      <4> QED BY <2>1, <3>1, <4>2, <4>3, <4>4
    <3>2. taken = Boundary(handed)
      BY <2>3 DEF FramingInv, TakenInv
    <3> QED BY <2>1, <2>3, <3>1, <3>2 DEF FramesIntact
  <2> QED BY <2>2, <2>3
<1> QED BY <1>1, <1>2, FramingStep, PTL DEF FramingSpec
=============================================================================
