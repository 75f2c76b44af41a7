---------------------- MODULE ConversationHistoryProofs ----------------------
(***************************************************************************)
(* Proofs about ConversationHistory, for any number of turns, steps and    *)
(* restarts.  What makes the history thread is that a turn's messages tell *)
(* where it is: its steps only grow, a working turn's last message is the  *)
(* call it is at, and only then does it append an answer.                  *)
(***************************************************************************)
EXTENDS ConversationHistory, FiniteSetTheorems, TLAPS

\* A message is appended by the turn it belongs to.
CallOf(t, i) == messages[i].role = "call" /\ messages[i].turn = t

TurnOK(t) ==
  /\ turn[t].pc = "idle" =>
       turn[t].step = 0 /\ \A i \in DOMAIN messages : messages[i].turn # t
  /\ \A i \in DOMAIN messages : messages[i].turn = t =>
       /\ messages[i].step <= turn[t].step
       /\ messages[i].role = "tool" => messages[i].step < turn[t].step
       /\ messages[i].role = "call" /\ turn[t].pc = "thinking" => messages[i].step < turn[t].step
  /\ turn[t].pc = "working" =>
       /\ turn[t].step < MaxSteps
       /\ \E i \in DOMAIN messages :
            /\ CallOf(t, i) /\ messages[i].step = turn[t].step
            /\ \A k \in DOMAIN messages : k > i => messages[k].turn # t

CallsDiffer ==
  \A i, j \in DOMAIN messages :
    /\ messages[i].role = "call" /\ messages[j].role = "call"
    /\ messages[i].turn = messages[j].turn /\ messages[i].step = messages[j].step
    => i = j

IInv ==
  /\ TypeOK
  /\ \A t \in Turns : TurnOK(t)
  /\ CallsDiffer
  /\ AnswersThread
  /\ OpenCallsAreExplained

USE HistoryAssumption DEF HistoryAssumption

LEMMA InitIInv == Init => IInv
<1> SUFFICES ASSUME Init PROVE IInv
  OBVIOUS
<1>1. DOMAIN messages = {} /\ \A t \in Turns : turn[t].pc = "idle" /\ turn[t].step = 0
  BY DEF Init
<1>2. TypeOK
  <2>1. messages \in Seq(Message) /\ toolCallsMade \in Nat
    BY DEF Init
  <2>2. [pc |-> "idle", step |-> 0, sent |-> 0] \in [pc : Pcs, step : 0 .. MaxSteps, sent : Nat]
    BY DEF Pcs
  <2>3. turn \in [Turns -> [pc : Pcs, step : 0 .. MaxSteps, sent : Nat]]
    BY <2>2 DEF Init
  <2>4. disturbed \in BOOLEAN
    BY DEF Init
  <2>5. restarts \in 0 .. MaxRestarts
    BY DEF Init
  <2> QED BY <2>1, <2>3, <2>4, <2>5 DEF TypeOK
<1> QED BY <1>1, <1>2 DEF IInv, TurnOK, CallsDiffer, AnswersThread, OpenCallsAreExplained

LEMMA MessageTyped ==
  ASSUME TypeOK, NEW i \in DOMAIN messages
  PROVE  messages[i].turn \in Turns /\ messages[i].step \in Nat
<1>1. messages[i] \in Message
  BY DEF TypeOK
<1> QED BY <1>1 DEF Message

\* What appending does to a sequence.
LEMMA Appended ==
  ASSUME NEW s \in Seq(Message), NEW m \in Message
  PROVE  /\ Append(s, m) \in Seq(Message) /\ Len(s) \in Nat
         /\ DOMAIN s = 1 .. Len(s) /\ DOMAIN Append(s, m) = 1 .. Len(s) + 1
         /\ \A i \in 1 .. Len(s) : Append(s, m)[i] = s[i]
         /\ Append(s, m)[Len(s) + 1] = m
OBVIOUS

\* A step of turn t that appends m and leaves the locals r.
Says(t, m, r) ==
  /\ m \in Message /\ m.turn = t /\ m.step = turn[t].step
  /\ r \in [pc : Pcs, step : 0 .. MaxSteps, sent : Nat]
  /\ r.pc # "idle" /\ turn[t].step <= r.step
  /\ messages' = Append(messages, m)
  /\ turn' = [turn EXCEPT ![t] = r]
  \* A call is made by a thinking turn, which then works on it or stops.
  /\ m.role = "call" => /\ turn[t].pc = "thinking" /\ r.step = m.step
                        /\ r.pc = "capped" \/ (r.pc = "working" /\ r.step < MaxSteps)
  \* An answer is given by a working turn, which goes on to the next step.
  /\ m.role = "tool" => turn[t].pc = "working" /\ r.pc = "thinking" /\ r.step > m.step
  \* A user message starts a turn, a text ends it.
  /\ m.role = "user" => turn[t].pc = "idle" /\ r.pc = "thinking"
  /\ m.role = "text" => turn[t].pc = "thinking" /\ r.pc \in {"replied", "capped"}

LEMMA SaysKeepsTurns ==
  ASSUME IInv, NEW t \in Turns, NEW m, NEW r, Says(t, m, r), NEW u \in Turns
  PROVE  TurnOK(u)'
<1>1. /\ messages \in Seq(Message) /\ turn \in [Turns -> [pc : Pcs, step : 0 .. MaxSteps, sent : Nat]]
      /\ TurnOK(t) /\ TurnOK(u)
  BY DEF IInv, TypeOK
<1>2. /\ Len(messages) \in Nat /\ DOMAIN messages = 1 .. Len(messages)
      /\ DOMAIN messages' = 1 .. Len(messages) + 1
      /\ \A i \in 1 .. Len(messages) : messages'[i] = messages[i]
      /\ messages'[Len(messages) + 1] = m
  BY <1>1, Appended DEF Says
<1>3. CASE u # t
  <2>1. turn'[u] = turn[u] /\ m.turn # u
    BY <1>1, <1>3 DEF Says
  <2>2. turn[u].pc = "idle" => \A i \in DOMAIN messages' : messages'[i].turn # u
    BY <1>1, <1>2, <2>1 DEF TurnOK
  <2>3. \A i \in DOMAIN messages' : messages'[i].turn = u =>
          i \in DOMAIN messages /\ messages'[i] = messages[i]
    BY <1>2, <2>1
  <2>4. ASSUME turn[u].pc = "working"
        PROVE  \E i \in DOMAIN messages' :
                 /\ CallOf(u, i)' /\ messages'[i].step = turn[u].step
                 /\ \A k \in DOMAIN messages' : k > i => messages'[k].turn # u
    <3>1. PICK i \in DOMAIN messages :
            /\ CallOf(u, i) /\ messages[i].step = turn[u].step
            /\ \A k \in DOMAIN messages : k > i => messages[k].turn # u
      BY <1>1, <2>4 DEF TurnOK
    <3> QED BY <1>2, <2>3, <3>1 DEF CallOf
  <2> QED BY <1>1, <2>1, <2>2, <2>3, <2>4 DEF TurnOK
<1>4. CASE u = t
  <2>1. turn'[t] = r /\ m.turn = t /\ m.step = turn[t].step /\ turn[t].step \in Nat /\ r.step \in Nat
    BY <1>1 DEF Says
  <2>2. r.pc # "idle" /\ m.role \in {"user", "text", "call", "tool"}
    BY DEF Says, Message
  <2>3. \A i \in DOMAIN messages : messages[i].step \in Nat
    BY MessageTyped DEF IInv
  <2>4. ASSUME NEW i \in DOMAIN messages', messages'[i].turn = t
        PROVE  /\ messages'[i].step <= r.step
               /\ messages'[i].role = "tool" => messages'[i].step < r.step
               /\ messages'[i].role = "call" /\ r.pc = "thinking" => messages'[i].step < r.step
    BY <1>1, <1>2, <2>1, <2>2, <2>3, <2>4 DEF TurnOK, Says
  <2>5. ASSUME r.pc = "working"
        PROVE  /\ r.step < MaxSteps
               /\ messages'[Len(messages) + 1].role = "call"
               /\ messages'[Len(messages) + 1].turn = t
               /\ messages'[Len(messages) + 1].step = r.step
    BY <1>2, <2>1, <2>2, <2>5 DEF Says
  <2> QED BY <1>2, <1>4, <2>1, <2>2, <2>4, <2>5 DEF TurnOK, CallOf
<1> QED BY <1>3, <1>4

LEMMA SaysKeepsThreads ==
  ASSUME IInv, NEW t \in Turns, NEW m, NEW r, Says(t, m, r)
  PROVE  CallsDiffer' /\ AnswersThread' /\ OpenCallsAreExplained'
<1>1. /\ messages \in Seq(Message) /\ turn \in [Turns -> [pc : Pcs, step : 0 .. MaxSteps, sent : Nat]]
      /\ TurnOK(t) /\ CallsDiffer /\ AnswersThread /\ OpenCallsAreExplained
  BY DEF IInv, TypeOK
<1>2. /\ Len(messages) \in Nat /\ DOMAIN messages = 1 .. Len(messages)
      /\ DOMAIN messages' = 1 .. Len(messages) + 1
      /\ \A i \in 1 .. Len(messages) : messages'[i] = messages[i]
      /\ messages'[Len(messages) + 1] = m
  BY <1>1, Appended DEF Says
<1>3. /\ m.turn = t /\ m.step = turn[t].step /\ turn[t].step \in Nat
      /\ m.role \in {"user", "text", "call", "tool"}
      /\ turn'[t] = r /\ \A u \in Turns \ {t} : turn'[u] = turn[u]
  BY <1>1 DEF Says, Message
<1>4. \A i \in DOMAIN messages : messages[i].step \in Nat /\ messages[i].turn \in Turns
  BY MessageTyped DEF IInv
<1> DEFINE n == Len(messages) + 1
\* The new message answers an old one only if it is the call t is at, and an old answer
\* never answers the new message.
<1>5. ASSUME NEW i \in DOMAIN messages
      PROVE  /\ answers(m, messages[i]) => m.role = "tool" /\ CallOf(t, i)
                                           /\ messages[i].step = turn[t].step
             /\ ~answers(messages[i], m)
  BY <1>1, <1>3, <1>4 DEF answers, CallOf, TurnOK, Says
<1>6. CallsDiffer'
  <2>1. ASSUME NEW i \in DOMAIN messages, messages[i].role = "call", m.role = "call",
               messages[i].turn = m.turn
        PROVE  messages[i].step # m.step
    BY <1>1, <1>3, <1>4, <2>1 DEF TurnOK, Says
  <2>2. \A i \in DOMAIN messages' : i = n \/ i \in DOMAIN messages
    BY <1>2
  <2> SUFFICES ASSUME NEW i \in DOMAIN messages', NEW j \in DOMAIN messages',
                      messages'[i].role = "call", messages'[j].role = "call",
                      messages'[i].turn = messages'[j].turn,
                      messages'[i].step = messages'[j].step
               PROVE  i = j
    BY DEF CallsDiffer
  <2>3. CASE i \in DOMAIN messages /\ j \in DOMAIN messages
    BY <1>1, <1>2, <2>3 DEF CallsDiffer
  <2> QED BY <1>2, <2>1, <2>2, <2>3
<1>7. \A i \in DOMAIN messages :
        Answer(i)' = Answer(i) \cup (IF answers(m, messages[i]) THEN {n} ELSE {})
  BY <1>2 DEF Answer
\* No answer yet to the call the turn is at.
<1>8. ASSUME NEW i \in DOMAIN messages, NEW j \in DOMAIN messages,
             answers(messages[j], messages[i]), messages[i].turn = t
      PROVE  messages[i].step # turn[t].step
  BY <1>1, <1>3, <1>4, <1>8 DEF TurnOK, answers
<1>9. ASSUME m.role = "tool"
      PROVE  \E i \in DOMAIN messages :
               /\ answers(m, messages[i]) /\ CallOf(t, i)
               /\ \A k \in DOMAIN messages : k > i => messages[k].turn # t
  BY <1>1, <1>3, <1>9 DEF TurnOK, Says, CallOf, answers
<1>10. AnswersThread'
  <2> SUFFICES ASSUME NEW j \in DOMAIN messages', messages'[j].role = "tool"
               PROVE  \E i \in 1 .. j - 1 :
                        /\ answers(messages'[j], messages'[i])
                        /\ Answer(i)' = {j}
                        /\ \A k \in i + 1 .. j - 1 : messages'[k].turn # messages'[j].turn
    BY DEF AnswersThread, answers
  <2>1. CASE j \in DOMAIN messages
    <3>1. PICK i \in 1 .. j - 1 :
            /\ answers(messages[j], messages[i])
            /\ Answer(i) = {j}
            /\ \A k \in i + 1 .. j - 1 : messages[k].turn # messages[j].turn
      BY <1>1, <1>2, <2>1 DEF AnswersThread
    <3>2. i \in DOMAIN messages /\ j \in Int
      BY <1>2, <2>1
    <3>3. ~answers(m, messages[i])
      BY <1>5, <1>8, <2>1, <3>1, <3>2 DEF CallOf
    <3>4. Answer(i)' = {j}
      BY <1>7, <3>1, <3>2, <3>3
    <3> QED BY <1>2, <2>1, <3>1, <3>2, <3>4
  <2>2. CASE j = n
    <3>1. m.role = "tool"
      BY <1>2, <2>2
    <3>2. PICK i \in DOMAIN messages :
            /\ answers(m, messages[i]) /\ CallOf(t, i)
            /\ \A k \in DOMAIN messages : k > i => messages[k].turn # t
      BY <1>9, <3>1
    <3>3. Answer(i) = {}
      BY <1>3, <1>8, <3>2 DEF Answer, CallOf, answers
    <3>4. Answer(i)' = {j} /\ i \in 1 .. j - 1
      BY <1>2, <1>7, <2>2, <3>2, <3>3
    <3>5. \A k \in i + 1 .. j - 1 : messages'[k].turn # m.turn
      BY <1>2, <1>3, <2>2, <3>2
    <3> QED BY <1>2, <2>2, <3>2, <3>4, <3>5
  <2> QED BY <1>2, <2>1, <2>2
<1>11. OpenCallsAreExplained'
  <2> SUFFICES ASSUME NEW i \in DOMAIN messages', messages'[i].role = "call", Answer(i)' = {}
               PROVE  LET u == turn'[messages'[i].turn]
                      IN  u.step = messages'[i].step /\ u.pc \in {"working", "capped", "failed"}
    BY DEF OpenCallsAreExplained
  <2>1. CASE i = n
    BY <1>2, <1>3, <2>1 DEF Says
  <2>2. CASE i \in DOMAIN messages
    <3>1. messages'[i] = messages[i] /\ Answer(i) = {} /\ ~answers(m, messages[i])
      BY <1>2, <1>7, <2>2
    <3>2. /\ turn[messages[i].turn].step = messages[i].step
          /\ turn[messages[i].turn].pc \in {"working", "capped", "failed"}
      BY <1>1, <2>2, <3>1 DEF OpenCallsAreExplained
    <3>3. ASSUME messages[i].turn = t PROVE FALSE
      <4>1. m.role = "tool"
        BY <1>3, <3>2, <3>3 DEF Says
      <4>2. PICK c \in DOMAIN messages : answers(m, messages[c]) /\ CallOf(t, c)
        BY <1>9, <4>1
      <4>3. c = i
        BY <1>1, <1>3, <2>2, <3>1, <3>2, <3>3, <4>2 DEF CallsDiffer, CallOf, answers
      <4> QED BY <3>1, <4>2, <4>3
    <3> QED BY <1>3, <1>4, <2>2, <3>1, <3>2, <3>3
  <2> QED BY <1>2, <2>1, <2>2
<1> QED BY <1>6, <1>10, <1>11

\* A turn that says something keeps the invariant.
LEMMA SaysKeepsIInv ==
  ASSUME IInv, NEW t \in Turns, NEW m, NEW r, Says(t, m, r),
         toolCallsMade' \in Nat, disturbed' \in BOOLEAN, restarts' \in 0 .. MaxRestarts
  PROVE  IInv'
<1>1. /\ messages \in Seq(Message)
      /\ turn \in [Turns -> [pc : Pcs, step : 0 .. MaxSteps, sent : Nat]]
  BY DEF IInv, TypeOK
<1>2. messages' \in Seq(Message)
  BY <1>1, Appended DEF Says
<1>3. turn' \in [Turns -> [pc : Pcs, step : 0 .. MaxSteps, sent : Nat]]
  BY <1>1 DEF Says
<1> QED BY <1>2, <1>3, SaysKeepsTurns, SaysKeepsThreads DEF IInv, TypeOK

\* A turn that ends without a word keeps it too: only a failed turn leaves a call open.
LEMMA QuietKeepsIInv ==
  ASSUME IInv, NEW t \in Turns, NEW pc0 \in {"failed", "refused"},
         turn[t].pc \in Running, turn[t].pc = "working" => pc0 = "failed",
         turn' = [turn EXCEPT ![t].pc = pc0],
         UNCHANGED <<messages, toolCallsMade, restarts>>, disturbed' \in BOOLEAN
  PROVE  IInv'
<1>1. turn \in [Turns -> [pc : Pcs, step : 0 .. MaxSteps, sent : Nat]]
  BY DEF IInv, TypeOK
<1>2. /\ turn'[t].pc = pc0 /\ turn'[t].step = turn[t].step
      /\ \A u \in Turns \ {t} : turn'[u] = turn[u]
  BY <1>1
<1>3. turn' \in [Turns -> [pc : Pcs, step : 0 .. MaxSteps, sent : Nat]]
  BY <1>1 DEF Pcs
<1>4. TypeOK'
  BY <1>3 DEF IInv, TypeOK
<1>5. ASSUME NEW u \in Turns PROVE TurnOK(u)'
  <2>1. TurnOK(u)
    BY DEF IInv
  <2>2. CASE u = t
    BY <1>2, <2>1, <2>2 DEF TurnOK
  <2>3. CASE u # t
    BY <1>2, <2>1, <2>3 DEF TurnOK, CallOf
  <2> QED BY <2>2, <2>3
<1>6. CallsDiffer' /\ AnswersThread'
  BY DEF IInv, CallsDiffer, AnswersThread, Answer, answers
<1>7. OpenCallsAreExplained'
  <2> SUFFICES ASSUME NEW i \in DOMAIN messages, messages[i].role = "call", Answer(i) = {}
               PROVE  /\ turn'[messages[i].turn].step = messages[i].step
                      /\ turn'[messages[i].turn].pc \in {"working", "capped", "failed"}
    BY DEF OpenCallsAreExplained, Answer, answers
  <2>1. /\ turn[messages[i].turn].step = messages[i].step
        /\ turn[messages[i].turn].pc \in {"working", "capped", "failed"}
    BY DEF IInv, OpenCallsAreExplained
  <2>2. messages[i].turn \in Turns
    BY MessageTyped DEF IInv
  <2> QED BY <1>2, <2>1, <2>2 DEF Running
<1> QED BY <1>4, <1>5, <1>6, <1>7 DEF IInv

LEMMA StepIInv == IInv /\ [Next]_vars => IInv'
<1> SUFFICES ASSUME IInv, [Next]_vars PROVE IInv'
  OBVIOUS
<1>1. /\ messages \in Seq(Message) /\ toolCallsMade \in Nat /\ Len(messages) + 1 \in Nat
      /\ turn \in [Turns -> [pc : Pcs, step : 0 .. MaxSteps, sent : Nat]]
      /\ disturbed \in BOOLEAN /\ restarts \in 0 .. MaxRestarts
  BY DEF IInv, TypeOK
<1>2. \A t \in Turns, step \in 0 .. MaxSteps, success \in BOOLEAN,
         role \in {"user", "text", "call", "tool"} : message(role, t, step, success) \in Message
  BY DEF message, Message
<1>3. \A pc0 \in Pcs, step \in 0 .. MaxSteps, sent \in Nat :
        [pc |-> pc0, step |-> step, sent |-> sent] \in [pc : Pcs, step : 0 .. MaxSteps, sent : Nat]
  OBVIOUS
<1>4. ASSUME NEW t \in Turns, Begin(t) PROVE IInv'
  <2> DEFINE r == [pc |-> "thinking", step |-> 0, sent |-> Len(messages) + 1]
             m == message("user", t, 0, FALSE)
  <2>1. TurnOK(t) /\ turn[t].pc = "idle"
    BY <1>4 DEF IInv, Begin
  <2>2. turn[t].step = 0 /\ m \in Message /\ r \in [pc : Pcs, step : 0 .. MaxSteps, sent : Nat]
    BY <1>1, <1>2, <1>3, <2>1 DEF TurnOK, Pcs, Running
  <2>3. m.turn = t /\ m.step = 0 /\ m.role = "user" /\ r.pc = "thinking" /\ r.step = 0
    BY DEF message
  <2>4. messages' = Append(messages, m) /\ turn' = [turn EXCEPT ![t] = r]
    BY <1>4 DEF Begin, Ask
  <2> HIDE DEF r, m
  <2>5. Says(t, m, r)
    BY <2>1, <2>2, <2>3, <2>4 DEF Says
  <2> QED BY <1>1, <1>4, <2>5, SaysKeepsIInv DEF Begin
<1>5. ASSUME NEW t \in Turns, ReplyText(t) PROVE IInv'
  <2> DEFINE r == [turn[t] EXCEPT !.pc = IF turn[t].step < MaxSteps THEN "replied" ELSE "capped"]
             m == message("text", t, turn[t].step, FALSE)
  <2>1. turn[t].pc = "thinking" /\ turn[t] \in [pc : Pcs, step : 0 .. MaxSteps, sent : Nat]
    BY <1>1, <1>5 DEF ReplyText, Answered
  <2>2. m \in Message /\ r \in [pc : Pcs, step : 0 .. MaxSteps, sent : Nat]
    BY <1>2, <2>1 DEF Pcs
  <2>3. m.turn = t /\ m.step = turn[t].step /\ m.role = "text"
    BY DEF message
  <2>4. r.pc \in {"replied", "capped"} /\ r.step = turn[t].step
    BY <2>1
  <2>5. messages' = Append(messages, m) /\ turn' = [turn EXCEPT ![t] = r]
    BY <1>1, <1>5 DEF ReplyText
  <2> HIDE DEF r, m
  <2>6. Says(t, m, r)
    BY <2>1, <2>2, <2>3, <2>4, <2>5 DEF Says
  <2> QED BY <1>1, <1>5, <2>6, SaysKeepsIInv DEF ReplyText
<1>6. ASSUME NEW t \in Turns, ReplyCall(t) PROVE IInv'
  <2> DEFINE r == [turn[t] EXCEPT !.pc = IF turn[t].step < MaxSteps THEN "working" ELSE "capped"]
             m == message("call", t, turn[t].step, FALSE)
  <2>1. turn[t].pc = "thinking" /\ turn[t] \in [pc : Pcs, step : 0 .. MaxSteps, sent : Nat]
    BY <1>1, <1>6 DEF ReplyCall, Answered
  <2>2. m \in Message /\ r \in [pc : Pcs, step : 0 .. MaxSteps, sent : Nat]
    BY <1>2, <2>1 DEF Pcs, Running
  <2>3. m.turn = t /\ m.step = turn[t].step /\ m.role = "call"
    BY DEF message
  <2>4. /\ r.pc = "capped" \/ (r.pc = "working" /\ r.step < MaxSteps)
        /\ r.step = turn[t].step
    BY <2>1
  <2>5. messages' = Append(messages, m) /\ turn' = [turn EXCEPT ![t] = r]
    BY <1>1, <1>6 DEF ReplyCall
  <2> HIDE DEF r, m
  <2>6. Says(t, m, r)
    BY <2>1, <2>2, <2>3, <2>4, <2>5 DEF Says
  <2> QED BY <1>1, <1>6, <2>6, SaysKeepsIInv DEF ReplyCall
<1>7. ASSUME NEW t \in Turns, NEW success \in BOOLEAN, FeedBack(t, success) PROVE IInv'
  <2> DEFINE r == [pc |-> "thinking", step |-> turn[t].step + 1, sent |-> Len(messages) + 1]
             m == message("tool", t, turn[t].step, success)
  <2>1. TurnOK(t) /\ turn[t].pc = "working" /\ turn[t].step \in 0 .. MaxSteps
    BY <1>1, <1>7 DEF IInv, FeedBack
  <2>2. turn[t].step + 1 \in 0 .. MaxSteps
    BY <2>1 DEF TurnOK
  <2>3. m \in Message /\ r \in [pc : Pcs, step : 0 .. MaxSteps, sent : Nat]
    BY <1>1, <1>2, <1>3, <2>1, <2>2 DEF Pcs, Running
  <2>4. /\ m.turn = t /\ m.step = turn[t].step /\ m.role = "tool"
        /\ r.pc = "thinking" /\ r.step = turn[t].step + 1
    BY DEF message
  <2>5. messages' = Append(messages, m) /\ turn' = [turn EXCEPT ![t] = r]
    BY <1>7 DEF FeedBack, Ask
  <2>6. toolCallsMade' \in Nat
    BY <1>1, <1>7 DEF FeedBack
  <2> HIDE DEF r, m
  <2>7. Says(t, m, r)
    BY <2>1, <2>3, <2>4, <2>5 DEF Says
  <2> QED BY <1>1, <1>7, <2>6, <2>7, SaysKeepsIInv DEF FeedBack
<1>8. ASSUME NEW t \in Turns, ReplyUnknownTool(t) \/ ModelFails(t) PROVE IInv'
  BY <1>1, <1>8, QuietKeepsIInv DEF ReplyUnknownTool, ModelFails, Answered, Running
<1>9. ASSUME NEW t \in Turns, Refuse(t) PROVE IInv'
  BY <1>1, <1>9, QuietKeepsIInv DEF Refuse, Running
<1>10. ASSUME NEW t \in Turns, CutShort(t) PROVE IInv'
  BY <1>1, <1>10, QuietKeepsIInv DEF CutShort, Running
<1>11. ASSUME Restart PROVE IInv'
  <2>1. messages' = <<>> /\ DOMAIN messages' = {} /\ messages' \in Seq(Message)
    BY <1>11 DEF Restart
  <2>2. \A t \in Turns : turn'[t].pc \in {"idle"} \cup (Pcs \ Running)
                         /\ turn'[t] \in [pc : Pcs, step : 0 .. MaxSteps, sent : Nat]
                         /\ turn'[t].step = turn[t].step
                         /\ (turn'[t].pc = "idle" => turn[t].pc = "idle")
    BY <1>1, <1>11 DEF Restart, Pcs, Running
  <2>3. turn' \in [Turns -> [pc : Pcs, step : 0 .. MaxSteps, sent : Nat]]
    BY <1>11, <2>2 DEF Restart
  <2>4. TypeOK'
    <3>1. disturbed' \in BOOLEAN
      BY <1>11 DEF Restart
    <3>2. toolCallsMade' \in Nat /\ restarts' \in 0 .. MaxRestarts
      BY <1>1, <1>11 DEF Restart
    <3> QED BY <2>1, <2>3, <3>1, <3>2 DEF TypeOK
  <2>5. ASSUME NEW t \in Turns PROVE TurnOK(t)'
    <3>1. TurnOK(t)
      BY DEF IInv
    <3> QED BY <2>1, <2>2, <3>1 DEF TurnOK, Running
  <2> QED BY <2>1, <2>4, <2>5 DEF IInv, CallsDiffer, AnswersThread, OpenCallsAreExplained
<1>12. CASE UNCHANGED vars
  <2>1. \A t \in Turns : TurnOK(t)'
    BY <1>12 DEF IInv, TurnOK, CallOf, vars
  <2>2. TypeOK' /\ CallsDiffer' /\ AnswersThread' /\ OpenCallsAreExplained'
    BY <1>12 DEF IInv, TypeOK, CallsDiffer, AnswersThread, OpenCallsAreExplained, Answer,
                 answers, vars
  <2> QED BY <2>1, <2>2 DEF IInv
<1> QED BY <1>4, <1>5, <1>6, <1>7, <1>8, <1>9, <1>10, <1>11, <1>12 DEF Next

\* Type correctness of the conversation and its turns.
THEOREM TypeCorrect == Spec => []TypeOK
<1>1. IInv => TypeOK
  BY DEF IInv
<1> QED BY <1>1, InitIInv, StepIInv, PTL DEF Spec

\* For any number of overlapping turns, steps and restarts, every answer in the history
\* the model is sent answers one call of its own turn, and a call without an answer is
\* one its turn works on or ended at.
THEOREM HistoryThreadsHolds == Spec => []HistoryThreads
<1>1. IInv => HistoryThreads
  BY DEF IInv, HistoryThreads
<1> QED BY <1>1, InitIInv, StepIInv, PTL DEF Spec

-----------------------------------------------------------------------------
(* The tally                                                               *)

Successes == {i \in DOMAIN messages : messages[i].role = "tool" /\ messages[i].success}

LEMMA OneMore ==
  ASSUME NEW n \in Nat, NEW A \in SUBSET (1 .. n), NEW B \in SUBSET (1 .. n + 1),
         \A i \in 1 .. n : i \in B <=> i \in A
  PROVE  /\ n + 1 \in B => B = A \cup {n + 1}
         /\ n + 1 \notin B => B = A
<1>1. \A i : i \in B => i \in A \/ i = n + 1
  <2> SUFFICES ASSUME NEW i \in B, i # n + 1 PROVE i \in A
    OBVIOUS
  <2> QED OBVIOUS
<1>2. A \subseteq B
  OBVIOUS
<1> QED BY <1>1, <1>2

LEMMA SuccessesAppend ==
  ASSUME TypeOK, NEW m \in Message, messages' = Append(messages, m)
  PROVE  /\ IsFiniteSet(Successes) /\ Len(messages) + 1 \notin Successes
         /\ m.role = "tool" /\ m.success => Successes' = Successes \cup {Len(messages) + 1}
         /\ ~(m.role = "tool" /\ m.success) => Successes' = Successes
<1>1. messages \in Seq(Message)
  BY DEF TypeOK
<1>2. /\ Len(messages) \in Nat /\ DOMAIN messages = 1 .. Len(messages)
      /\ DOMAIN messages' = 1 .. Len(messages) + 1
      /\ \A i \in 1 .. Len(messages) : messages'[i] = messages[i]
      /\ messages'[Len(messages) + 1] = m
  BY <1>1, Appended
<1>3. IsFiniteSet(1 .. Len(messages)) /\ Successes \subseteq 1 .. Len(messages)
  BY <1>2, FS_Interval DEF Successes
<1>4. IsFiniteSet(Successes)
  BY <1>3, FS_Subset
<1>5. Len(messages) + 1 \notin Successes
  BY <1>2, <1>3
<1>6. /\ \A i \in 1 .. Len(messages) : i \in Successes' <=> i \in Successes
      /\ Len(messages) + 1 \in Successes' <=> m.role = "tool" /\ m.success
      /\ Successes' \subseteq 1 .. Len(messages) + 1
  BY <1>2 DEF Successes
<1>7. /\ Len(messages) + 1 \in Successes' => Successes' = Successes \cup {Len(messages) + 1}
      /\ Len(messages) + 1 \notin Successes' => Successes' = Successes
  BY <1>2, <1>3, <1>6, OneMore
<1> QED BY <1>4, <1>5, <1>6, <1>7

TallyInv == IInv /\ TallyMatchesHistory

LEMMA StepTally == TallyInv /\ [Next]_vars => TallyInv'
<1> SUFFICES ASSUME TallyInv, [Next]_vars PROVE TallyInv'
  OBVIOUS
<1>1. IInv' /\ IInv /\ TypeOK /\ toolCallsMade = Cardinality(Successes)
  BY StepIInv DEF TallyInv, IInv, TallyMatchesHistory, Successes
<1> SUFFICES toolCallsMade' = Cardinality(Successes')
  BY <1>1 DEF TallyInv, TallyMatchesHistory, Successes
<1>2. ASSUME NEW role \in {"user", "text", "call"}, NEW t \in Turns,
             messages' = Append(messages, message(role, t, turn[t].step, FALSE)),
             toolCallsMade' = toolCallsMade
      PROVE  toolCallsMade' = Cardinality(Successes')
  <2>1. turn[t].step \in 0 .. MaxSteps
    BY <1>1 DEF TypeOK
  <2>2. /\ message(role, t, turn[t].step, FALSE) \in Message
        /\ message(role, t, turn[t].step, FALSE).role # "tool"
    BY <2>1 DEF message, Message
  <2> QED BY <1>1, <1>2, <2>2, SuccessesAppend
<1>3. ASSUME NEW t \in Turns, Begin(t) PROVE toolCallsMade' = Cardinality(Successes')
  <2>1. TurnOK(t) /\ turn[t].step = 0
    BY <1>1, <1>3 DEF IInv, TurnOK, Begin
  <2> QED BY <1>2, <1>3, <2>1 DEF Begin, Ask
<1>4. ASSUME NEW t \in Turns, ReplyText(t) \/ ReplyCall(t)
      PROVE  toolCallsMade' = Cardinality(Successes')
  BY <1>2, <1>4 DEF ReplyText, ReplyCall
<1>5. ASSUME NEW t \in Turns, NEW success \in BOOLEAN, FeedBack(t, success)
      PROVE  toolCallsMade' = Cardinality(Successes')
  <2> DEFINE m == message("tool", t, turn[t].step, success)
  <2>1. turn[t].step \in 0 .. MaxSteps
    BY <1>1 DEF TypeOK
  <2>2. m \in Message /\ m.role = "tool" /\ m.success = success
    BY <2>1 DEF message, Message
  <2>3. messages' = Append(messages, m)
    BY <1>5 DEF FeedBack, Ask
  <2> HIDE DEF m
  <2>4. /\ IsFiniteSet(Successes) /\ Len(messages) + 1 \notin Successes
        /\ success => Successes' = Successes \cup {Len(messages) + 1}
        /\ ~success => Successes' = Successes
    BY <1>1, <2>2, <2>3, SuccessesAppend
  <2>5. CASE success
    BY <1>1, <1>5, <2>4, <2>5, FS_AddElement DEF FeedBack
  <2>6. CASE ~success
    BY <1>1, <1>5, <2>4, <2>6 DEF FeedBack
  <2> QED BY <2>5, <2>6
<1>6. ASSUME NEW t \in Turns,
             ReplyUnknownTool(t) \/ Refuse(t) \/ ModelFails(t) \/ CutShort(t)
      PROVE  toolCallsMade' = Cardinality(Successes')
  BY <1>1, <1>6 DEF ReplyUnknownTool, Refuse, ModelFails, CutShort, Successes
<1>7. ASSUME Restart PROVE toolCallsMade' = Cardinality(Successes')
  BY <1>7, FS_EmptySet DEF Restart, Successes
<1>8. CASE UNCHANGED vars
  BY <1>1, <1>8 DEF Successes, vars
<1> QED BY <1>3, <1>4, <1>5, <1>6, <1>7, <1>8 DEF Next

\* The tally of a conversation is the number of successful answers in its history, for
\* any number of turns that overlap, stop early or are lost to a restart.
THEOREM TallyMatchesHistoryHolds == Spec => []TallyMatchesHistory
<1>1. Init => TallyInv
  <2> SUFFICES ASSUME Init PROVE TallyInv
    OBVIOUS
  <2>1. toolCallsMade = 0 /\ DOMAIN messages = {}
    BY DEF Init
  <2> QED BY <2>1, InitIInv, FS_EmptySet DEF TallyInv, TallyMatchesHistory
<1>2. TallyInv => TallyMatchesHistory
  BY DEF TallyInv
<1> QED BY <1>1, <1>2, StepTally, PTL DEF Spec

-----------------------------------------------------------------------------
(* Undisturbed conversations                                               *)

\* Acceptable, of any history.
Takes(list, n) ==
  \A i \in 1 .. n :
    /\ list[i].role = "call" => i < n /\ answers(list[i + 1], list[i])
    /\ list[i].role = "tool" => i > 1 /\ answers(list[i], list[i - 1])

\* Without overlaps and open ends, the history is one the model takes, up to the call
\* the one running turn works on.
Threaded ==
  ~disturbed =>
    /\ \A t, u \in Turns : turn[t].pc \in Running /\ turn[u].pc \in Running => t = u
    /\ \A t \in Turns : turn[t].pc = "thinking" => turn[t].sent = Len(messages)
    /\ (\A t \in Turns : turn[t].pc # "working") => Takes(messages, Len(messages))
    /\ \A t \in Turns : turn[t].pc = "working" =>
         /\ Len(messages) > 0 /\ Takes(messages, Len(messages) - 1)
         /\ CallOf(t, Len(messages)) /\ messages[Len(messages)].step = turn[t].step

\* What appending does to what the model takes.
LEMMA TakesAppend ==
  ASSUME NEW s \in Seq(Message), NEW m \in Message, NEW n, n = Len(s)
  PROVE  /\ n \in Nat /\ Len(Append(s, m)) = n + 1 /\ Append(s, m)[n + 1] = m
         /\ Takes(s, n) => Takes(Append(s, m), n)
         /\ Takes(s, n) /\ m.role \in {"user", "text"} => Takes(Append(s, m), n + 1)
         /\ n > 0 /\ Takes(s, n - 1) /\ s[n].role = "call" /\ answers(m, s[n])
              => Takes(Append(s, m), n + 1)
<1> DEFINE l == Append(s, m)
<1>1. n \in Nat /\ Len(l) = n + 1 /\ l[n + 1] = m /\ \A i \in 1 .. n : l[i] = s[i]
  BY Appended
<1> HIDE DEF l
<1>2. ASSUME Takes(s, n) PROVE Takes(l, n)
  BY <1>1, <1>2 DEF Takes
<1>3. ASSUME Takes(s, n), m.role \in {"user", "text"} PROVE Takes(l, n + 1)
  BY <1>1, <1>3 DEF Takes
<1>4. ASSUME n > 0, Takes(s, n - 1), s[n].role = "call", answers(m, s[n])
      PROVE  Takes(l, n + 1)
  <2> SUFFICES ASSUME NEW i \in 1 .. n + 1
               PROVE  /\ l[i].role = "call" => i < n + 1 /\ answers(l[i + 1], l[i])
                      /\ l[i].role = "tool" => i > 1 /\ answers(l[i], l[i - 1])
    BY DEF Takes
  <2>1. l[n] = s[n] /\ m.role = "tool"
    BY <1>1, <1>4 DEF answers
  <2>2. CASE i = n + 1
    BY <1>1, <1>4, <2>1, <2>2
  <2>3. CASE i = n
    BY <1>1, <1>4, <2>1, <2>3
  <2>4. CASE i < n
    <3>1. i \in 1 .. n - 1 /\ l[i] = s[i] /\ l[i + 1] = s[i + 1] /\ i + 1 \in 1 .. n
      BY <1>1, <2>4
    <3>2. i > 1 => l[i - 1] = s[i - 1]
      BY <1>1, <3>1
    <3> QED BY <1>1, <1>4, <3>1, <3>2 DEF Takes
  <2> QED BY <1>1, <2>2, <2>3, <2>4
<1> QED BY <1>1, <1>2, <1>3, <1>4 DEF l

LEMMA StepThreaded == IInv /\ Threaded /\ [Next]_vars => Threaded'
<1> SUFFICES ASSUME IInv, Threaded, [Next]_vars, ~disturbed' PROVE Threaded'
  BY DEF Threaded
<1>1. /\ messages \in Seq(Message) /\ Len(messages) \in Nat
      /\ turn \in [Turns -> [pc : Pcs, step : 0 .. MaxSteps, sent : Nat]]
      /\ disturbed \in BOOLEAN
  BY DEF IInv, TypeOK
<1>2. \A t \in Turns, step \in 0 .. MaxSteps, success \in BOOLEAN,
         role \in {"user", "text", "call", "tool"} :
         /\ message(role, t, step, success) \in Message
         /\ message(role, t, step, success).role = role
         /\ message(role, t, step, success).turn = t
         /\ message(role, t, step, success).step = step
  BY DEF message, Message
<1>3. ASSUME NEW t \in Turns, Begin(t) PROVE Threaded'
  <2> DEFINE m == message("user", t, 0, FALSE)
  <2>1. disturbed' = (disturbed \/ \E u \in Turns : turn[u].pc \in Running)
    BY <1>3 DEF Begin
  <2>2. ~disturbed /\ \A u \in Turns : turn[u].pc \notin Running
    BY <2>1, Zenon
  <2>3. m \in Message /\ m.role = "user"
    BY DEF message, Message
  <2>4. messages' = Append(messages, m)
    BY <1>3 DEF Begin, Ask
  <2>5. turn' = [turn EXCEPT ![t] = [pc |-> "thinking", step |-> 0, sent |-> Len(messages) + 1]]
    BY <1>3 DEF Begin, Ask
  <2> HIDE DEF m
  <2>6. Takes(messages, Len(messages))
    BY <2>2 DEF Threaded, Running
  <2>7. Len(messages') = Len(messages) + 1 /\ Takes(messages', Len(messages'))
    BY <1>1, <2>3, <2>4, <2>6, TakesAppend
  <2>8. /\ turn'[t].pc = "thinking" /\ turn'[t].sent = Len(messages')
        /\ \A u \in Turns \ {t} : turn'[u].pc \notin Running
    BY <1>1, <2>2, <2>5, <2>7
  <2> QED BY <2>7, <2>8 DEF Threaded, Running
<1>4. ASSUME NEW t \in Turns, ReplyText(t) PROVE Threaded'
  <2> DEFINE m == message("text", t, turn[t].step, FALSE)
  <2>1. /\ ~disturbed /\ turn[t].pc = "thinking"
        /\ m \in Message /\ m.role = "text" /\ messages' = Append(messages, m)
        /\ turn'[t].pc \notin Running /\ \A u \in Turns \ {t} : turn'[u] = turn[u]
    <3>0. turn[t].step \in 0 .. MaxSteps
      BY <1>1
    <3>1. m \in Message /\ m.role = "text"
      BY <3>0 DEF message, Message
    <3>2. ~disturbed /\ turn[t].pc = "thinking"
      BY <1>4 DEF ReplyText, Answered
    <3>3. messages' = Append(messages, m)
      BY <1>4 DEF ReplyText
    <3>4. turn'[t].pc \notin Running /\ \A u \in Turns \ {t} : turn'[u] = turn[u]
      BY <1>1, <1>4 DEF ReplyText, Running
    <3> HIDE DEF m
    <3> QED BY <3>1, <3>2, <3>3, <3>4
  <2> HIDE DEF m
  <2>2. \A u \in Turns : turn'[u].pc \notin Running /\ turn[u].pc # "working"
    BY <2>1 DEF Threaded, Running
  <2>3. Takes(messages, Len(messages))
    BY <2>1, <2>2 DEF Threaded
  <2>4. Takes(messages', Len(messages'))
    BY <1>1, <2>1, <2>3, TakesAppend
  <2> QED BY <2>2, <2>4 DEF Threaded, Running
<1>5. ASSUME NEW t \in Turns, ReplyCall(t) PROVE Threaded'
  <2> DEFINE m == message("call", t, turn[t].step, FALSE)
  <2>1. /\ ~disturbed /\ turn[t].pc = "thinking" /\ turn[t].step < MaxSteps
    <3>1. disturbed' = (disturbed \/ turn[t].step = MaxSteps)
      BY <1>5 DEF ReplyCall
    <3>2. ~disturbed /\ turn[t].step # MaxSteps
      BY <3>1, Zenon
    <3>3. turn[t].step \in 0 .. MaxSteps /\ turn[t].pc = "thinking"
      BY <1>1, <1>5 DEF ReplyCall, Answered
    <3> QED BY <3>2, <3>3
  <2>2. /\ m \in Message /\ m.role = "call" /\ m.turn = t /\ m.step = turn[t].step
        /\ messages' = Append(messages, m)
        /\ turn'[t].pc = "working" /\ turn'[t].step = turn[t].step
        /\ \A u \in Turns \ {t} : turn'[u] = turn[u]
    <3>0. turn[t].step \in 0 .. MaxSteps
      BY <1>1
    <3>1. m \in Message /\ m.role = "call" /\ m.turn = t /\ m.step = turn[t].step
      BY <3>0 DEF message, Message
    <3>2. messages' = Append(messages, m)
      BY <1>5 DEF ReplyCall
    <3>3. /\ turn'[t].pc = "working" /\ turn'[t].step = turn[t].step
          /\ \A u \in Turns \ {t} : turn'[u] = turn[u]
      BY <1>1, <1>5, <2>1 DEF ReplyCall
    <3> HIDE DEF m
    <3> QED BY <3>1, <3>2, <3>3
  <2> HIDE DEF m
  <2>3. \A u \in Turns \ {t} : turn'[u].pc \notin Running /\ turn[u].pc \notin Running
    BY <2>1, <2>2 DEF Threaded, Running
  <2>4. Takes(messages, Len(messages))
    BY <2>1, <2>3 DEF Threaded, Running
  <2>5. /\ Len(messages') = Len(messages) + 1 /\ messages'[Len(messages')] = m
        /\ Takes(messages', Len(messages') - 1)
    BY <1>1, <2>2, <2>4, TakesAppend
  <2> QED BY <1>1, <2>2, <2>3, <2>5 DEF Threaded, Running, CallOf
<1>6. ASSUME NEW t \in Turns, NEW success \in BOOLEAN, FeedBack(t, success) PROVE Threaded'
  <2> DEFINE m == message("tool", t, turn[t].step, success)
  <2>1. /\ ~disturbed /\ turn[t].pc = "working"
        /\ m \in Message /\ m.role = "tool" /\ m.turn = t /\ m.step = turn[t].step
        /\ messages' = Append(messages, m)
        /\ turn'[t].pc = "thinking" /\ turn'[t].sent = Len(messages) + 1
        /\ \A u \in Turns \ {t} : turn'[u] = turn[u]
    BY <1>1, <1>2, <1>6 DEF FeedBack, Ask
  <2> HIDE DEF m
  <2>2. \A u \in Turns \ {t} : turn'[u].pc \notin Running
    BY <2>1 DEF Threaded, Running
  <2>3. /\ Len(messages) > 0 /\ Takes(messages, Len(messages) - 1)
        /\ messages[Len(messages)].role = "call" /\ answers(m, messages[Len(messages)])
    BY <2>1 DEF Threaded, CallOf, answers
  <2>4. Len(messages') = Len(messages) + 1 /\ Takes(messages', Len(messages'))
    BY <1>1, <2>1, <2>3, TakesAppend
  <2> QED BY <2>1, <2>2, <2>4 DEF Threaded, Running
<1>7. ASSUME NEW t \in Turns, ReplyUnknownTool(t) \/ Refuse(t) \/ ModelFails(t)
      PROVE  Threaded'
  <2>1. /\ ~disturbed /\ turn[t].pc = "thinking" /\ UNCHANGED messages
        /\ turn'[t].pc \notin Running /\ \A u \in Turns \ {t} : turn'[u] = turn[u]
    BY <1>1, <1>7 DEF ReplyUnknownTool, Refuse, ModelFails, Answered, Running
  <2> QED BY <2>1 DEF Threaded, Running
<1>8. ASSUME NEW t \in Turns, CutShort(t) PROVE Threaded'
  BY <1>8 DEF CutShort
<1>9. ASSUME Restart PROVE Threaded'
  <2>1. Len(messages') = 0 /\ \A t \in Turns : turn'[t].pc \notin Running
    BY <1>1, <1>9 DEF Restart, Running
  <2> QED BY <2>1 DEF Threaded, Takes, Running
<1>10. CASE UNCHANGED vars
  BY <1>10 DEF Threaded, vars, CallOf
<1> QED BY <1>3, <1>4, <1>5, <1>6, <1>7, <1>8, <1>9, <1>10 DEF Next

\* As long as no turns overlap and none ends with a call open, the model takes every
\* request, however many turns follow one another and however many steps they take.
THEOREM UndisturbedIsAcceptedHolds == Spec => []UndisturbedIsAccepted
<1>1. Init => Threaded
  BY DEF Init, Threaded, Takes, Running
<1>2. Threaded => UndisturbedIsAccepted
  BY DEF Threaded, UndisturbedIsAccepted, Running, Takes, Acceptable
<1> QED BY <1>1, <1>2, InitIInv, StepIInv, StepThreaded, PTL DEF Spec
=============================================================================
