------------------------------- MODULE AtChat -------------------------------
(***************************************************************************)
(* The AT command engine of at_chat.c: commands that any thread submits to *)
(* two queues, the thread that polls at_obj_process, which sends them one  *)
(* at a time, matches the answers and retries, and the modem, which        *)
(* answers each command it got, when it likes, or never.  A poll is three  *)
(* steps, since submissions and at_work_abort_all may come in between.     *)
(***************************************************************************)
EXTENDS Integers, Sequences, FiniteSets, SequencesExt

CONSTANTS Cmd,
          Urgent,      \* those of AT_PRIORITY_HIGH
          WorkCount,   \* AT_LIST_WORK_COUNT
          Retry,       \* attr->retry
          AnswerTime,     \* attr->timeout, in ticks
          RetryWait,   \* the 100 ms before a command is sent again
          MaxAsked,    \* bound: answers that are outstanding
          NoCmd

ASSUME ChatAssumption ==
  /\ Urgent \subseteq Cmd /\ NoCmd \notin Cmd
  /\ WorkCount \in Nat /\ Retry \in Nat /\ AnswerTime \in Nat /\ RetryWait \in Nat
  /\ MaxAsked \in Nat

VARIABLES list,     \* hlist ("high") and llist ("low")
          made,     \* work items created but not linked yet
          cursor, stage,   \* stage: the next step of the poll
          work,     \* state of the work items
          state,    \* env->state
          retries,  \* env->i
          age,      \* ticks since reset_timer
          recvbuf,  \* answers received since it was cleared
          asked,    \* the modem: how many sends it has to answer yet,
          link      \*   and its answers on the way
\* History of the command at the cursor: how often it was sent, whether the line
\* was clear then, the answer to its last send; and what its callback was told.
VARIABLES sends, clear, reply, told

modem == <<asked, link>>
env == <<state, retries, age, recvbuf>>
history == <<sends, clear, reply, told>>
chatVars == <<list, made, cursor, stage, work, env, modem, history>>

MaxAge == (IF AnswerTime > RetryWait THEN AnswerTime ELSE RetryWait) + 1

Answers == {"ok", "error"}
QueueOf(c) == IF c \in Urgent THEN "high" ELSE "low"
list_cnt == Len(list["high"]) + Len(list["low"])
Linked == Range(list["high"]) \cup Range(list["low"])

ChatTyped ==
  /\ list \in [{"high", "low"} -> Seq(Cmd)]
  /\ \A q \in {"high", "low"} : IsInjective(list[q]) /\ \A c \in Range(list[q]) : QueueOf(c) = q
  /\ made \subseteq Cmd \ Linked
  /\ cursor \in Linked \cup {NoCmd}
  /\ stage \in {"poll", "handle", "recycle"}
  /\ work \in [Cmd -> {"ready", "run", "finish", "abort"}]
  /\ state \in {"send", "recv", "retry"} /\ retries \in 0 .. Retry + 1
  /\ age \in 0 .. MaxAge
  /\ recvbuf \in Seq(Answers) /\ link \in Seq(Answers)
  /\ asked \in Nat /\ asked + Len(link) <= MaxAsked
  /\ sends \in 0 .. Retry + 1 /\ clear \in BOOLEAN
  /\ reply \in Answers \cup {"none"}
  /\ told \in Answers \cup {"none", "timeout"}

ChatInit ==
  /\ list = [q \in {"high", "low"} |-> <<>>] /\ made = {}
  /\ cursor = NoCmd /\ stage = "poll"
  /\ work = [c \in Cmd |-> "ready"]
  /\ state = "send" /\ retries = 0 /\ age = 0 /\ recvbuf = <<>>
  /\ asked = 0 /\ link = <<>>
  /\ sends = 0 /\ clear = TRUE /\ reply = "none" /\ told = "none"

-----------------------------------------------------------------------------
\* The threads that submit: the limit is tested before the lock is taken.
create_work_item(c) ==
  /\ c \notin made \cup Linked
  /\ list_cnt <= WorkCount
  /\ made' = made \cup {c}
  /\ work' = [work EXCEPT ![c] = "ready"]
  /\ UNCHANGED <<list, cursor, stage, env, modem, history>>

sumit_work_item(c) ==
  /\ c \in made
  /\ list' = [list EXCEPT ![QueueOf(c)] = Append(@, c)]
  /\ made' = made \ {c}
  /\ UNCHANGED <<cursor, stage, work, env, modem, history>>

\* No callback is called for what it aborts.
at_work_abort_all ==
  /\ Linked # {}
  /\ work' = [c \in Cmd |-> IF c \in Linked THEN "abort" ELSE work[c]]
  /\ UNCHANGED <<list, made, cursor, stage, env, modem, history>>

-----------------------------------------------------------------------------
\* A poll reads answers, then starts a command if none runs.
Receive(n) ==
  /\ recvbuf' = recvbuf \o SubSeq(link, 1, n)
  /\ link' = SubSeq(link, n + 1, Len(link))

Poll ==
  /\ stage = "poll" /\ cursor # NoCmd
  /\ stage' = "handle"
  /\ \E n \in 0 .. Len(link) : Receive(n)
  /\ UNCHANGED <<list, made, cursor, work, state, retries, age, asked, history>>

\* Mutant: the low queue is served first.
StartLow(c) ==
  /\ stage = "poll" /\ cursor = NoCmd
  /\ IF list["low"] # <<>> THEN c = list["low"][1]
     ELSE list["high"] # <<>> /\ c = list["high"][1]
  /\ cursor' = c /\ stage' = "handle"
  /\ \E n \in 0 .. Len(link) : link' = SubSeq(link, n + 1, Len(link))
  /\ state' = "send" /\ retries' = 0 /\ age' = 0 /\ recvbuf' = <<>>
  /\ work' = [work EXCEPT ![c] = IF @ = "ready" THEN "run" ELSE @]
  /\ sends' = 0 /\ clear' = TRUE /\ reply' = "none" /\ told' = "none"
  /\ UNCHANGED <<list, made, asked>>

\* With no command running, what was received is cleared at the start.
Start(c) ==
  /\ stage = "poll" /\ cursor = NoCmd
  /\ IF list["high"] # <<>> THEN c = list["high"][1]
     ELSE list["low"] # <<>> /\ c = list["low"][1]
  /\ cursor' = c /\ stage' = "handle"
  /\ \E n \in 0 .. Len(link) : link' = SubSeq(link, n + 1, Len(link))
  /\ state' = "send" /\ retries' = 0 /\ age' = 0 /\ recvbuf' = <<>>
  /\ work' = [work EXCEPT ![c] = IF @ = "ready" THEN "run" ELSE @]
  /\ sends' = 0 /\ clear' = TRUE /\ reply' = "none" /\ told' = "none"
  /\ UNCHANGED <<list, made, asked>>

\* With nothing to do at all, what the modem sends is read and dropped.
PollIdle ==
  /\ stage = "poll" /\ cursor = NoCmd /\ Linked = {}
  /\ link # <<>> /\ link' = Tail(link)
  /\ UNCHANGED <<list, made, cursor, stage, work, env, asked, history>>

Stopped ==
  /\ stage = "handle" /\ work[cursor] \in {"finish", "abort"}
  /\ stage' = "recycle"
  /\ UNCHANGED <<list, made, cursor, work, env, modem, history>>

\* do_cmd_handler runs.
Handling == stage = "handle" /\ work[cursor] = "run"

\* do_at_callback, and the return of true.
Tell(outcome) ==
  /\ told' = outcome
  /\ work' = [work EXCEPT ![cursor] = "finish"]
  /\ stage' = "recycle"

Again == work' = work /\ told' = told /\ stage' = "poll"

\* The modem gets what is sent, or does not.
Asked == asked' \in {asked, asked + 1} /\ asked' + Len(link) <= MaxAsked

\* Mutant: what was received before the command is sent again is kept.
SendKeeps ==
  /\ Handling /\ state = "send"
  /\ state' = "recv" /\ age' = 0
  /\ Asked
  /\ sends' = sends + 1 /\ reply' = "none"
  /\ clear' = (asked = 0 /\ link = <<>>)
  /\ Again
  /\ UNCHANGED <<list, made, cursor, retries, recvbuf, link>>

Send ==
  /\ Handling /\ state = "send"
  /\ state' = "recv" /\ age' = 0 /\ recvbuf' = <<>>
  /\ Asked
  /\ sends' = sends + 1 /\ reply' = "none"
  /\ clear' = (asked = 0 /\ link = <<>>)
  /\ Again
  /\ UNCHANGED <<list, made, cursor, retries, link>>

\* An error is answered by a pause and a new send, while there are some left.
\* A buffer that holds both answers counts as a success, whatever was set for
\* the new send.
ReceiveError ==
  /\ Handling /\ state = "recv" /\ "error" \in Range(recvbuf)
  /\ retries' = retries + 1
  /\ IF retries >= Retry THEN Tell("error") /\ UNCHANGED <<state, age>>
     ELSE /\ state' = "retry" /\ age' = 0
          /\ IF "ok" \in Range(recvbuf) THEN Tell("ok") ELSE Again
  /\ UNCHANGED <<list, made, cursor, recvbuf, modem, sends, clear, reply>>

ReceiveOk ==
  /\ Handling /\ state = "recv" /\ Range(recvbuf) = {"ok"}
  /\ Tell("ok")
  /\ UNCHANGED <<list, made, cursor, env, modem, sends, clear, reply>>

ReceiveNothing ==
  /\ Handling /\ state = "recv" /\ recvbuf = <<>>
  /\ IF age <= AnswerTime THEN Again /\ UNCHANGED <<state, retries>>
     ELSE /\ retries' = retries + 1
          /\ IF retries >= Retry THEN Tell("timeout") /\ UNCHANGED state
             ELSE state' = "send" /\ Again
  /\ UNCHANGED <<list, made, cursor, age, recvbuf, modem, sends, clear, reply>>

RetryLater ==
  /\ Handling /\ state = "retry"
  /\ state' = IF age > RetryWait THEN "send" ELSE "retry"
  /\ Again
  /\ UNCHANGED <<list, made, cursor, retries, age, recvbuf, modem, sends, clear, reply>>

Unlinked(s, c) == RemoveAt(s, CHOOSE n \in DOMAIN s : s[n] = c)

work_item_recycle ==
  /\ stage = "recycle"
  /\ list' = [list EXCEPT ![QueueOf(cursor)] = Unlinked(@, cursor)]
  /\ cursor' = NoCmd /\ stage' = "poll"
  /\ UNCHANGED <<made, work, env, modem, history>>

at_obj_process ==
  \/ Poll \/ (\E c \in Cmd : Start(c)) \/ PollIdle
  \/ Stopped \/ Send \/ ReceiveError \/ ReceiveOk \/ ReceiveNothing \/ RetryLater
  \/ work_item_recycle

-----------------------------------------------------------------------------
\* The modem, and time.
Answer(a) ==
  /\ asked > 0
  /\ asked' = asked - 1 /\ link' = Append(link, a)
  /\ reply' = a
  /\ UNCHANGED <<list, made, cursor, stage, work, env, sends, clear, told>>

Silence ==
  /\ asked > 0
  /\ asked' = asked - 1
  /\ UNCHANGED <<list, made, cursor, stage, work, env, link, history>>

ChatTick ==
  /\ age < MaxAge
  /\ age' = age + 1
  /\ UNCHANGED <<list, made, cursor, stage, work, state, retries, recvbuf, modem, history>>

ChatNext ==
  \/ \E c \in Cmd : create_work_item(c) \/ sumit_work_item(c)
  \/ at_work_abort_all
  \/ at_obj_process
  \/ (\E a \in Answers : Answer(a)) \/ Silence
  \/ ChatTick

\* The polling thread runs again and again, and time passes.
ChatFairness == WF_chatVars(at_obj_process) /\ WF_chatVars(ChatTick)

ChatSpec == ChatInit /\ [][ChatNext]_chatVars /\ ChatFairness

-----------------------------------------------------------------------------
\* What the callback of a command is told comes from the modem's answer to the
\* last time it was sent, and a failure is told after Retry more sends, however
\* answers, timeouts and aborts fall.  The code relies on the line being clear
\* at that send: an answer to something it gave up before (a late one, or one
\* to an aborted command) is taken for the next command's.  A command that
\* leaves the queues was told something or was aborted.
OutcomeIsOwn ==
  /\ told \in Answers /\ clear => told = reply
  /\ told \in {"error", "timeout"} => sends = Retry + 1
  /\ stage = "recycle" => told # "none" \/ work[cursor] = "abort"

\* A command of high priority is answered or aborted in the end, even if the
\* modem never says anything and the low queue is never empty.
UrgentEnd == \A c \in Urgent : c \in Linked ~> c \notin Linked
=============================================================================
