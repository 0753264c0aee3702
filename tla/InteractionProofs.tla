------------------------- MODULE InteractionProofs -------------------------
(***************************************************************************)
(* Proofs about what the activities share with the engine: Interaction and *)
(* Location, for any number of threads, of kinds of requests, of activities*)
(* and of calls, and Assistant, for any number of messages and commands.   *)
(***************************************************************************)
EXTENDS Location, Assistant, ListLemmas, TLAPS

Messages == Activities \X Codes

Tables == [Activities -> [Codes -> Requesters \cup {None, Stale}]]

(* One entry of one map is replaced. *)
LEMMA TableStep ==
  ASSUME NEW T \in Tables, NEW a \in Activities, NEW c \in Codes,
         NEW x \in Requesters \cup {None, Stale}
  PROVE  [T EXCEPT ![a][c] = x] \in Tables
  BY DEF Tables

LEMMA InitInteraction == Init => IInv
<1> SUFFICES ASSUME Init PROVE IInv
    OBVIOUS
<1> USE InteractionAssumption
<1>1. TypeOK
    BY DEF Init, TypeOK, Incomplete, Answers
<1>2. CallbackIsInFront /\ TableInv /\ ConnectionInv
    BY DEF Init, CallbackIsInFront, TableInv, ConnectionInv
<1>3. EnteredInv /\ WaiterWillBeAnswered
    BY DEF Init, EnteredInv, Entered, WaiterWillBeAnswered
<1> QED BY <1>1, <1>2, <1>3 DEF IInv

-----------------------------------------------------------------------------
(* The steps of a requester *)

LEMMA StepChoose ==
  ASSUME IInv, NEW r \in Requesters, NEW c \in Codes, Choose(r, c)
  PROVE  IInv'
<1> USE InteractionAssumption
<1>1. callback \in bound /\ bound \subseteq Activities
    BY DEF Choose, IInv, TypeOK
<1>2. TypeOK'
    BY <1>1 DEF IInv, TypeOK, Choose, uiVars, stateVars
<1>3. CallbackIsInFront'
    BY DEF IInv, CallbackIsInFront, Choose, uiVars
<1>4. \A q \in Requesters \ {r} : /\ pc'[q] = pc[q] /\ conn'[q] = conn[q]
                                  /\ code'[q] = code[q]
                                  /\ q \in lost' <=> q \in lost
    BY DEF IInv, TypeOK, Choose
<1>5. pc[r] = "idle" /\ pc'[r] = "chosen" /\ conn'[r] = callback /\ code'[r] = c
    BY DEF IInv, TypeOK, Choose
<1>6. table' = table /\ looper' = looper /\ dialogs' = dialogs /\ result' = result
      /\ bound' = bound /\ activity' = activity /\ parent' = parent
    BY DEF Choose, uiVars, stateVars
<1>7. TableInv'
    BY <1>4, <1>5, <1>6 DEF IInv, TableInv, Entered
<1>8. ConnectionInv'
    BY <1>1, <1>4, <1>5, <1>6 DEF IInv, ConnectionInv
<1>9. EnteredInv'
    BY <1>4, <1>5, <1>6 DEF IInv, EnteredInv, Entered
<1>10. WaiterWillBeAnswered'
    BY <1>4, <1>5, <1>6 DEF IInv, WaiterWillBeAnswered, Posted
<1> QED BY <1>2, <1>3, <1>7, <1>8, <1>9, <1>10 DEF IInv

(* Whoever was in the map under the code is out of it, and lost. *)
LEMMA StepEnter ==
  ASSUME IInv, NEW r \in Requesters, Enter(r)
  PROVE  IInv'
<1> USE InteractionAssumption
<1> DEFINE a == conn[r]
           c == code[r]
<1>0. pc[r] = "chosen" /\ a \in bound /\ c \in Codes
    BY DEF IInv, ConnectionInv, Enter
<1>1. pc[r] = "chosen" /\ a \in Activities /\ a \in bound /\ c \in Codes
    BY <1>0 DEF IInv, TypeOK
<1>2. /\ pc' = [pc EXCEPT ![r] = "entered"]
      /\ table' = [table EXCEPT ![a][c] = r]
      /\ lost' = lost \cup {q \in Requesters : table[a][c] = q /\ result[q] = Incomplete}
      /\ UNCHANGED <<uiVars, looper, dialogs, conn, code, result>>
    BY DEF Enter
<1> HIDE DEF a, c
<1> table' \in Tables
    BY <1>1, <1>2, TableStep DEF IInv, TypeOK, Tables
<1>3. TypeOK'
    BY <1>1, <1>2 DEF IInv, TypeOK, uiVars, Tables
<1>4. CallbackIsInFront'
    BY <1>2 DEF IInv, CallbackIsInFront, uiVars
<1>5. \A b \in Activities, d \in Codes :
          table'[b][d] = IF b = a /\ d = c THEN r ELSE table[b][d]
    BY <1>1, <1>2 DEF IInv, TypeOK
<1>6. pc'[r] = "entered" /\ \A q \in Requesters \ {r} : pc'[q] = pc[q]
    BY <1>2 DEF IInv, TypeOK
<1>7. TableInv'
    BY <1>1, <1>2, <1>5, <1>6 DEF IInv, TableInv, Entered, a, c
<1>8. ConnectionInv'
    BY <1>1, <1>2, <1>6 DEF IInv, ConnectionInv, uiVars
<1>9. \A q \in Requesters \ {r} :
          table[a][c] = q /\ result[q] = Incomplete => q \in lost'
    BY <1>2
<1>10. lost \subseteq lost'
    BY <1>2
<1>11. \A q \in Requesters : conn[q] \in Activities \/ conn[q] = None
    BY DEF IInv, TypeOK
<1>12. \A q \in Requesters : Entered(q) => conn[q] \in Activities /\ code[q] \in Codes
    BY DEF IInv, TypeOK, ConnectionInv, Entered
<1>13. EnteredInv'
    <2> SUFFICES ASSUME NEW q \in Requesters, Entered(q)', result[q] = Incomplete, q \notin lost'
                 PROVE  table'[conn[q]][code[q]] = q
        BY <1>2 DEF EnteredInv
    <2>1. CASE q = r
        BY <2>1, <1>1, <1>5 DEF a, c
    <2>2. CASE q # r
        <3>1. Entered(q)
            BY <2>2, <1>6 DEF Entered
        <3>2. table[conn[q]][code[q]] = q
            BY <3>1, <1>10 DEF IInv, EnteredInv
        <3> QED BY <2>2, <3>1, <3>2, <1>5, <1>9, <1>12
    <2> QED BY <2>1, <2>2
<1>14. WaiterWillBeAnswered'
    <2> SUFFICES ASSUME NEW q \in Requesters, pc'[q] = "waiting", result[q] = Incomplete,
                        q \notin lost'
                 PROVE  /\ table'[conn[q]][code[q]] = q
                        /\ Posted(conn[q], code[q]) \/ dialogs[conn[q]][code[q]] > 0
        BY <1>2 DEF WaiterWillBeAnswered, Posted
    <2>1. q # r /\ pc[q] = "waiting"
        BY <1>6
    <2>2. table'[conn[q]][code[q]] = q
        BY <1>2, <1>13, <2>1, <1>6 DEF EnteredInv, Entered
    <2>3. Posted(conn[q], code[q]) \/ dialogs[conn[q]][code[q]] > 0
        BY <1>10, <2>1 DEF IInv, WaiterWillBeAnswered
    <2> QED BY <2>2, <2>3
<1> QED BY <1>3, <1>4, <1>7, <1>8, <1>13, <1>14 DEF IInv

(* From here on the message is on its way. *)
LEMMA StepPost ==
  ASSUME IInv, NEW r \in Requesters, Post(r)
  PROVE  IInv'
<1> USE InteractionAssumption
<1> DEFINE m == <<conn[r], code[r]>>
<1>1. pc[r] = "entered" /\ m \in Messages /\ looper \in Seq(Messages)
    BY DEF IInv, ConnectionInv, TypeOK, Post, Messages
<1>2. /\ pc' = [pc EXCEPT ![r] = "waiting"]
      /\ looper' = Append(looper, m)
      /\ UNCHANGED <<uiVars, table, dialogs, conn, code, result, lost>>
    BY DEF Post
<1> HIDE DEF m
<1>3. looper' \in Seq(Messages) /\ ToSet(looper') = ToSet(looper) \cup {m}
    BY <1>1, <1>2, ToSetAppend, AppendProperties
<1>4. TypeOK'
    BY <1>2, <1>3 DEF IInv, TypeOK, uiVars, Messages
<1>5. CallbackIsInFront'
    BY <1>2 DEF IInv, CallbackIsInFront, uiVars
<1>6. pc'[r] = "waiting" /\ \A q \in Requesters \ {r} : pc'[q] = pc[q]
    BY <1>2 DEF IInv, TypeOK
<1>7. \A q \in Requesters : Entered(q)' <=> Entered(q)
    BY <1>1, <1>6 DEF Entered
<1>8. TableInv' /\ ConnectionInv' /\ EnteredInv'
    BY <1>1, <1>2, <1>6, <1>7 DEF IInv, TableInv, ConnectionInv, EnteredInv, uiVars
<1>9. WaiterWillBeAnswered'
    <2> SUFFICES ASSUME NEW q \in Requesters, pc'[q] = "waiting", result[q] = Incomplete,
                        q \notin lost
                 PROVE  /\ table[conn[q]][code[q]] = q
                        /\ <<conn[q], code[q]>> \in ToSet(looper')
                           \/ dialogs[conn[q]][code[q]] > 0
        BY <1>2 DEF WaiterWillBeAnswered, Posted
    <2>1. CASE q = r
        BY <2>1, <1>1, <1>3 DEF IInv, EnteredInv, Entered, m
    <2>2. CASE q # r
        BY <2>2, <1>3, <1>6 DEF IInv, WaiterWillBeAnswered, Posted
    <2> QED BY <2>1, <2>2
<1> QED BY <1>4, <1>5, <1>8, <1>9 DEF IInv

LEMMA StepReturn ==
  ASSUME IInv, NEW r \in Requesters, Return(r)
  PROVE  IInv'
<1> USE InteractionAssumption
<1> DEFINE a == conn[r]
           c == code[r]
<1>1. pc[r] = "waiting" /\ result[r] # Incomplete /\ a \in Activities /\ c \in Codes
    BY DEF IInv, ConnectionInv, TypeOK, Return
<1>2. /\ pc' = [pc EXCEPT ![r] = "idle"]
      /\ table' = [table EXCEPT ![a][c] = IF @ = r THEN Stale ELSE @]
      /\ conn' = [conn EXCEPT ![r] = None]
      /\ code' = [code EXCEPT ![r] = None]
      /\ result' = [result EXCEPT ![r] = Incomplete]
      /\ UNCHANGED <<uiVars, looper, dialogs, lost>>
    BY DEF Return
<1>3. \A b \in Activities, d \in Codes :
          table'[b][d] = IF b = a /\ d = c /\ table[b][d] = r THEN Stale ELSE table[b][d]
    BY <1>1, <1>2 DEF IInv, TypeOK
<1>4. \A q \in Requesters \ {r} : /\ pc'[q] = pc[q] /\ conn'[q] = conn[q]
                                  /\ code'[q] = code[q] /\ result'[q] = result[q]
    BY <1>2 DEF IInv, TypeOK
<1>5. pc'[r] = "idle"
    BY <1>2 DEF IInv, TypeOK
<1>6. \A b \in Activities, d \in Codes : table[b][d] = r => b = a /\ d = c
    BY DEF IInv, TableInv
<1> HIDE DEF a, c
<1> table' \in Tables
    <2>1. (IF table[a][c] = r THEN Stale ELSE table[a][c]) \in Requesters \cup {None, Stale}
        BY <1>1 DEF IInv, TypeOK
    <2> QED BY <1>1, <1>2, <2>1, TableStep DEF IInv, TypeOK, Tables
<1> pc' \in [Requesters -> {"idle", "chosen", "entered", "waiting"}]
    BY <1>2 DEF IInv, TypeOK
<1> conn' \in [Requesters -> Activities \cup {None}]
    BY <1>2 DEF IInv, TypeOK
<1> code' \in [Requesters -> Codes \cup {None}]
    BY <1>2 DEF IInv, TypeOK
<1> result' \in [Requesters -> {Incomplete} \cup Answers]
    BY <1>2 DEF IInv, TypeOK
<1>7. TypeOK'
    BY <1>2 DEF IInv, TypeOK, uiVars, Tables
<1>8. CallbackIsInFront'
    BY <1>2 DEF IInv, CallbackIsInFront, uiVars
<1>9. TableInv'
    BY <1>3, <1>4, <1>6 DEF IInv, TableInv, Entered
<1>10. ConnectionInv'
    BY <1>2, <1>4, <1>5 DEF IInv, ConnectionInv, uiVars
<1>11. \A q \in Requesters : Entered(q) => conn[q] \in Activities /\ code[q] \in Codes
    BY DEF IInv, TypeOK, ConnectionInv, Entered
<1>12. \A q \in Requesters : Entered(q)' => q # r /\ Entered(q)
    BY <1>4, <1>5 DEF Entered
<1>13. EnteredInv'
    <2> SUFFICES ASSUME NEW q \in Requesters, Entered(q)', result'[q] = Incomplete, q \notin lost
                 PROVE  table'[conn'[q]][code'[q]] = q
        BY <1>2 DEF EnteredInv
    <2>1. q # r /\ Entered(q) /\ conn[q] \in Activities /\ code[q] \in Codes
        BY <1>11, <1>12
    <2>2. table[conn[q]][code[q]] = q
        BY <2>1, <1>4 DEF IInv, EnteredInv
    <2> QED BY <2>1, <2>2, <1>3, <1>4
<1>14. WaiterWillBeAnswered'
    <2> SUFFICES ASSUME NEW q \in Requesters, pc'[q] = "waiting", result'[q] = Incomplete,
                        q \notin lost
                 PROVE  /\ table'[conn'[q]][code'[q]] = q
                        /\ <<conn'[q], code'[q]>> \in ToSet(looper)
                           \/ dialogs[conn'[q]][code'[q]] > 0
        BY <1>2 DEF WaiterWillBeAnswered, Posted
    <2>1. q # r
        BY <1>5
    <2>2. table'[conn'[q]][code'[q]] = q
        BY <1>2, <1>13 DEF EnteredInv, Entered
    <2> QED BY <2>1, <2>2, <1>4 DEF IInv, WaiterWillBeAnswered, Posted
<1> QED BY <1>7, <1>8, <1>9, <1>10, <1>13, <1>14 DEF IInv

-----------------------------------------------------------------------------
(* The main thread *)

Dialogs == [Activities -> [Codes -> Nat]]
Results == [Requesters -> {Incomplete} \cup Answers]

LEMMA DialogStep ==
  ASSUME NEW D \in Dialogs, NEW a \in Activities, NEW c \in Codes, NEW n \in Nat
  PROVE  [D EXCEPT ![a][c] = n] \in Dialogs
  BY DEF Dialogs

(* Whoever's state is completed has an answer, and nobody loses one. *)
LEMMA CompleteAnswers ==
  ASSUME result \in Results, NEW x, NEW answer \in Answers, Complete(x, answer)
  PROVE  /\ result' \in Results
         /\ \A q \in Requesters : result'[q] = Incomplete => result[q] = Incomplete /\ q # x
<1>1. answer # Incomplete
    BY DEF Answers, Incomplete
<1>2. CASE x \in Requesters
    <2>1. result' = [result EXCEPT ![x] = answer]
        BY <1>2 DEF Complete
    <2> QED BY <1>1, <2>1 DEF Results
<1>3. CASE x \notin Requesters
    BY <1>3 DEF Complete
<1> QED BY <1>2, <1>3

(* A message is handled: the state under its code gets a dialog or an answer. *)
LEMMA ServeAnswers ==
  ASSUME IInv, NEW a \in Activities, NEW c \in Codes, Serve(a, c)
  PROVE  /\ table' = table /\ dialogs' \in Dialogs /\ result' \in Results
         /\ \A b \in Activities, d \in Codes : dialogs'[b][d] >= dialogs[b][d]
         /\ \A q \in Requesters : result'[q] = Incomplete => result[q] = Incomplete
         /\ \A q \in Requesters : table[a][c] = q /\ result'[q] = Incomplete
                                  => dialogs'[a][c] > 0
<1>1. dialogs \in Dialogs /\ result \in Results
    BY DEF IInv, TypeOK, Dialogs, Results
<1>2. \A b \in Activities, d \in Codes : dialogs[b][d] \in Nat
    BY <1>1 DEF Dialogs
<1>3. CASE table[a][c] = None /\ UNCHANGED <<table, dialogs, result>>
    BY <1>1, <1>2, <1>3, InteractionAssumption
<1>4. CASE Refuse(a, c)
    <2>1. Complete(table[a][c], "refused") /\ UNCHANGED <<table, dialogs>>
        BY <1>4 DEF Refuse
    <2>2. "refused" \in Answers
        BY DEF Answers
    <2> QED BY <1>1, <1>2, <2>1, <2>2, CompleteAnswers
<1>5. CASE Show(a, c)
    <2>1. dialogs' = [dialogs EXCEPT ![a][c] = dialogs[a][c] + 1]
          /\ UNCHANGED <<table, result>>
        BY <1>5 DEF Show
    <2>2. dialogs[a][c] + 1 \in Nat
        BY <1>2
    <2>3. dialogs' \in Dialogs
        BY <1>1, <2>1, <2>2, DialogStep
    <2>4. \A b \in Activities, d \in Codes :
              dialogs'[b][d] = IF b = a /\ d = c THEN dialogs[a][c] + 1 ELSE dialogs[b][d]
        BY <1>1, <2>1 DEF Dialogs
    <2> QED BY <1>1, <1>2, <2>1, <2>3, <2>4
<1> QED BY <1>3, <1>4, <1>5 DEF Serve

LEMMA StepHandleMessage ==
  ASSUME IInv, HandleMessage
  PROVE  IInv'
<1> USE InteractionAssumption
<1> DEFINE m == Head(looper)
           a == m[1]
           c == m[2]
<1>1. looper \in Seq(Messages) /\ looper # <<>> /\ looper' = Tail(looper)
    BY DEF IInv, TypeOK, HandleMessage, Messages
<1>2. m \in Messages /\ looper' \in Seq(Messages)
    BY <1>1, HeadTailProperties
<1>3. a \in Activities /\ c \in Codes /\ m = <<a, c>>
    BY <1>2 DEF Messages
<1>4. \A x \in ToSet(looper) : x = <<a, c>> \/ x \in ToSet(looper')
    BY <1>1, <1>3, ToSetHeadTail
<1>5. Serve(a, c) /\ UNCHANGED <<uiVars, pc, conn, code, lost>>
    BY DEF HandleMessage
<1> HIDE DEF m, a, c
<1>6. /\ table' = table /\ dialogs' \in Dialogs /\ result' \in Results
      /\ \A b \in Activities, d \in Codes : dialogs'[b][d] >= dialogs[b][d]
      /\ \A q \in Requesters : result'[q] = Incomplete => result[q] = Incomplete
      /\ \A q \in Requesters : table[a][c] = q /\ result'[q] = Incomplete
                               => dialogs'[a][c] > 0
    BY <1>3, <1>5, ServeAnswers
<1>7. TypeOK'
    BY <1>2, <1>5, <1>6 DEF IInv, TypeOK, uiVars, Messages, Dialogs, Results
<1>8. CallbackIsInFront' /\ ConnectionInv'
    BY <1>5 DEF IInv, CallbackIsInFront, ConnectionInv, uiVars
<1>9. TableInv' /\ EnteredInv'
    BY <1>5, <1>6 DEF IInv, TableInv, EnteredInv, Entered
<1>10. WaiterWillBeAnswered'
    <2> SUFFICES ASSUME NEW q \in Requesters, pc[q] = "waiting", result'[q] = Incomplete,
                        q \notin lost
                 PROVE  /\ table[conn[q]][code[q]] = q
                        /\ <<conn[q], code[q]>> \in ToSet(looper')
                           \/ dialogs'[conn[q]][code[q]] > 0
        BY <1>5, <1>6 DEF WaiterWillBeAnswered, Posted
    <2>1. /\ table[conn[q]][code[q]] = q
          /\ <<conn[q], code[q]>> \in ToSet(looper) \/ dialogs[conn[q]][code[q]] > 0
        BY <1>6 DEF IInv, WaiterWillBeAnswered, Posted
    <2>2. conn[q] \in Activities /\ code[q] \in Codes
        BY DEF IInv, TypeOK, ConnectionInv
    <2>3. CASE <<conn[q], code[q]>> = <<a, c>>
        <3>1. conn[q] = a /\ code[q] = c
            BY <2>3
        <3> QED BY <2>1, <3>1, <1>6
    <2>4. CASE dialogs[conn[q]][code[q]] > 0
        <3>1. dialogs[conn[q]][code[q]] \in Nat /\ dialogs'[conn[q]][code[q]] \in Nat
            BY <2>2, <1>6 DEF IInv, TypeOK, Dialogs
        <3> QED BY <2>1, <2>2, <2>4, <3>1, <1>6
    <2> QED BY <2>1, <2>3, <2>4, <1>4
<1> QED BY <1>7, <1>8, <1>9, <1>10 DEF IInv

(* The dialog that ends takes with it the state under its code, and no other. *)
LEMMA StepDialogEnds ==
  ASSUME IInv, NEW a \in Activities, NEW c \in Codes, DialogEnds(a, c)
  PROVE  IInv'
<1> USE InteractionAssumption
<1>1. /\ dialogs[a][c] > 0
      /\ dialogs' = [dialogs EXCEPT ![a][c] = dialogs[a][c] - 1]
      /\ table' = [table EXCEPT ![a][c] = None]
      /\ UNCHANGED <<uiVars, looper, pc, conn, code, lost>>
    BY DEF DialogEnds, Report
<1>2. PICK answer \in Answers : Complete(table[a][c], answer)
    BY DEF DialogEnds, Report
<1>3. dialogs \in Dialogs /\ result \in Results /\ table \in Tables
    BY DEF IInv, TypeOK, Dialogs, Results, Tables
<1>4. /\ result' \in Results
      /\ \A q \in Requesters : result'[q] = Incomplete
                               => result[q] = Incomplete /\ q # table[a][c]
    BY <1>2, <1>3, CompleteAnswers
<1>5. dialogs[a][c] - 1 \in Nat
    BY <1>1, <1>3 DEF Dialogs
<1>6. dialogs' \in Dialogs /\ table' \in Tables
    BY <1>1, <1>3, <1>5, DialogStep, TableStep
<1>7. \A b \in Activities, d \in Codes :
          /\ table'[b][d] = IF b = a /\ d = c THEN None ELSE table[b][d]
          /\ ~(b = a /\ d = c) => dialogs'[b][d] = dialogs[b][d]
    BY <1>1, <1>3 DEF Tables, Dialogs
<1>8. TypeOK'
    BY <1>1, <1>4, <1>6 DEF IInv, TypeOK, uiVars, Tables, Dialogs, Results
<1>9. CallbackIsInFront' /\ ConnectionInv'
    BY <1>1 DEF IInv, CallbackIsInFront, ConnectionInv, uiVars
<1>10. TableInv'
    BY <1>1, <1>7 DEF IInv, TableInv, Entered
<1>11. \A q \in Requesters : Entered(q) => conn[q] \in Activities /\ code[q] \in Codes
    BY DEF IInv, TypeOK, ConnectionInv, Entered
<1>12. \A q \in Requesters : Entered(q) /\ result'[q] = Incomplete /\ q \notin lost
           => /\ table[conn[q]][code[q]] = q
              /\ ~(conn[q] = a /\ code[q] = c)
    BY <1>4 DEF IInv, EnteredInv
<1>13. EnteredInv'
    BY <1>1, <1>7, <1>11, <1>12 DEF EnteredInv, Entered
<1>14. WaiterWillBeAnswered'
    <2> SUFFICES ASSUME NEW q \in Requesters, pc[q] = "waiting", result'[q] = Incomplete,
                        q \notin lost
                 PROVE  /\ table'[conn[q]][code[q]] = q
                        /\ <<conn[q], code[q]>> \in ToSet(looper)
                           \/ dialogs'[conn[q]][code[q]] > 0
        BY <1>1 DEF WaiterWillBeAnswered, Posted
    <2>1. Entered(q)
        BY DEF Entered
    <2>2. dialogs'[conn[q]][code[q]] = dialogs[conn[q]][code[q]]
          /\ table'[conn[q]][code[q]] = q
        BY <2>1, <1>7, <1>11, <1>12
    <2> QED BY <2>2, <1>4 DEF IInv, WaiterWillBeAnswered, Posted
<1> QED BY <1>8, <1>9, <1>10, <1>13, <1>14 DEF IInv

-----------------------------------------------------------------------------
(* The activity *)

LEMMA StepResume ==
  ASSUME IInv, NEW a \in Activities, Resume(a)
  PROVE  IInv'
<1>1. /\ activity[a] \in {"unborn", "back"} /\ \A b \in Activities : activity[b] # "front"
      /\ activity' = [activity EXCEPT ![a] = "front"]
      /\ parent' = [parent EXCEPT ![a] = TRUE]
      /\ UNCHANGED <<bound, callback, table, looper, dialogs, pc, conn, code, result, lost>>
    BY DEF Resume, stateVars, reqVars
<1>2. TypeOK'
    BY <1>1 DEF IInv, TypeOK
<1>3. CallbackIsInFront'
    BY <1>1 DEF IInv, TypeOK, CallbackIsInFront
<1>4. ConnectionInv'
    BY <1>1 DEF IInv, TypeOK, ConnectionInv
<1>5. TableInv' /\ EnteredInv' /\ WaiterWillBeAnswered'
    BY <1>1 DEF IInv, TableInv, EnteredInv, Entered, WaiterWillBeAnswered, Posted
<1> QED BY <1>2, <1>3, <1>4, <1>5 DEF IInv

(* The activity in front has its parent set. *)
LEMMA StepConnected ==
  ASSUME IInv, NEW a \in Activities, Connected(a)
  PROVE  IInv'
<1>1. /\ activity[a] = "front"
      /\ bound' = bound \cup {a}
      /\ callback' = a
      /\ UNCHANGED <<activity, parent, table, looper, dialogs, pc, conn, code, result, lost>>
    BY DEF Connected, stateVars, reqVars
<1>2. TypeOK'
    BY <1>1 DEF IInv, TypeOK
<1>3. CallbackIsInFront'
    BY <1>1 DEF IInv, ConnectionInv, CallbackIsInFront
<1>4. ConnectionInv'
    BY <1>1 DEF IInv, ConnectionInv
<1>5. TableInv' /\ EnteredInv' /\ WaiterWillBeAnswered'
    BY <1>1 DEF IInv, TableInv, EnteredInv, Entered, WaiterWillBeAnswered, Posted
<1> QED BY <1>2, <1>3, <1>4, <1>5 DEF IInv

(* A connection that was never bound is not the callback. *)
LEMMA StepPause ==
  ASSUME IInv, NEW a \in Activities, Pause(a)
  PROVE  IInv'
<1>1. /\ activity[a] = "front"
      /\ activity' = [activity EXCEPT ![a] = "back"]
      /\ parent' = [parent EXCEPT ![a] = FALSE]
      /\ callback' = IF a \in bound THEN None ELSE callback
      /\ UNCHANGED <<bound, table, looper, dialogs, pc, conn, code, result, lost>>
    BY DEF Pause, stateVars, reqVars
<1>2. TypeOK'
    BY <1>1 DEF IInv, TypeOK
<1>3. callback' = None
    BY <1>1 DEF IInv, TypeOK, CallbackIsInFront
<1>4. CallbackIsInFront'
    BY <1>3 DEF CallbackIsInFront
<1>5. ConnectionInv'
    BY <1>1 DEF IInv, TypeOK, ConnectionInv
<1>6. TableInv' /\ EnteredInv' /\ WaiterWillBeAnswered'
    BY <1>1 DEF IInv, TableInv, EnteredInv, Entered, WaiterWillBeAnswered, Posted
<1> QED BY <1>2, <1>4, <1>5, <1>6 DEF IInv

(* The dialogs of the activity go; whoever waited for one of them is lost. *)
LEMMA StepDestroyActivity ==
  ASSUME IInv, NEW a \in Activities, DestroyActivity(a)
  PROVE  IInv'
<1> USE InteractionAssumption
<1>1. /\ activity[a] = "back"
      /\ lost' = lost \cup {q \in Requesters : Waiting(q) /\ conn[q] = a /\ pc[q] = "waiting"
                                               /\ ~Posted(a, code[q])}
      /\ UNCHANGED <<parent, bound, callback, table, looper, pc, conn, code, result>>
    BY DEF DestroyActivity, reqVars
<1>2. /\ activity' \in [Activities -> {"unborn", "front", "back", "dead"}]
      /\ dialogs' \in Dialogs
      /\ \A b \in Activities : activity[b] = "front" <=> activity'[b] = "front"
      /\ \A b \in Activities : activity'[b] = "unborn" => activity[b] = "unborn"
      /\ \A b \in Activities : b = a \/ activity[b] = "unborn" \/ dialogs'[b] = dialogs[b]
    <2> DEFINE none == [c \in Codes |-> 0]
    <2>1. dialogs \in Dialogs /\ none \in [Codes -> Nat]
          /\ activity \in [Activities -> {"unborn", "front", "back", "dead"}]
        BY DEF IInv, TypeOK, Dialogs
    <2> HIDE DEF none
    <2>2. CASE /\ activity' = [activity EXCEPT ![a] = "dead"]
               /\ dialogs' = [dialogs EXCEPT ![a] = none]
        BY <1>1, <2>1, <2>2 DEF Dialogs
    <2>3. ASSUME NEW b \in Activities, activity[b] = "unborn",
                 activity' = [activity EXCEPT ![a] = "dead", ![b] = "back"],
                 dialogs' = [dialogs EXCEPT ![b] = dialogs[a], ![a] = none]
          PROVE  <1>2
        BY <1>1, <2>1, <2>3 DEF Dialogs
    <2> QED BY <2>2, <2>3 DEF DestroyActivity, none
<1>3. TypeOK'
    BY <1>1, <1>2 DEF IInv, TypeOK, Dialogs
<1>4. CallbackIsInFront'
    BY <1>1, <1>2 DEF IInv, TypeOK, CallbackIsInFront
<1>5. ConnectionInv'
    BY <1>1, <1>2 DEF IInv, TypeOK, ConnectionInv
<1>6. lost \subseteq lost'
    BY <1>1
<1>7. TableInv' /\ EnteredInv'
    BY <1>1, <1>6 DEF IInv, TableInv, EnteredInv, Entered
<1>8. WaiterWillBeAnswered'
    <2> SUFFICES ASSUME NEW q \in Requesters, pc[q] = "waiting", result[q] = Incomplete,
                        q \notin lost'
                 PROVE  /\ table[conn[q]][code[q]] = q
                        /\ Posted(conn[q], code[q]) \/ dialogs'[conn[q]][code[q]] > 0
        BY <1>1 DEF WaiterWillBeAnswered, Posted
    <2>1. /\ table[conn[q]][code[q]] = q
          /\ Posted(conn[q], code[q]) \/ dialogs[conn[q]][code[q]] > 0
        BY <1>6 DEF IInv, WaiterWillBeAnswered
    <2>2. conn[q] \in Activities /\ activity[conn[q]] # "unborn"
        BY DEF IInv, TypeOK, ConnectionInv
    <2>3. CASE conn[q] = a
        BY <2>1, <2>3, <1>1 DEF Waiting
    <2>4. CASE conn[q] # a
        BY <2>1, <2>2, <2>4, <1>2
    <2> QED BY <2>3, <2>4
<1> QED BY <1>3, <1>4, <1>5, <1>7, <1>8 DEF IInv

-----------------------------------------------------------------------------
LEMMA StepInteraction == IInv /\ [Next]_vars => IInv'
<1> SUFFICES ASSUME IInv, [Next]_vars PROVE IInv'
    OBVIOUS
<1>1. CASE UNCHANGED vars
    BY <1>1 DEF vars, uiVars, stateVars, reqVars, IInv, TypeOK, CallbackIsInFront, TableInv,
                ConnectionInv, EnteredInv, Entered, WaiterWillBeAnswered, Posted
<1>2. CASE \E r \in Requesters : \/ \E c \in Codes : Choose(r, c)
                                 \/ Enter(r) \/ Post(r) \/ Return(r)
    BY <1>2, StepChoose, StepEnter, StepPost, StepReturn
<1>3. CASE HandleMessage
    BY <1>3, StepHandleMessage
<1>4. CASE \E a \in Activities, c \in Codes : DialogEnds(a, c)
    BY <1>4, StepDialogEnds
<1>5. CASE \E a \in Activities : Resume(a) \/ Connected(a) \/ Pause(a) \/ DestroyActivity(a)
    BY <1>5, StepResume, StepConnected, StepPause, StepDestroyActivity
<1> QED BY <1>1, <1>2, <1>3, <1>4, <1>5 DEF Next

(* The inductive invariant of the interaction, for all requesters, codes and
   activities. *)
THEOREM InteractionInvariant == Spec => []IInv
BY InitInteraction, StepInteraction, PTL DEF Spec

(* Whoever waits for an answer of the user is under its code in the map of its
   connection and has a message under way or a dialog open, unless one of the
   two losses happened. *)
THEOREM WaiterWillBeAnsweredHolds == Spec => []WaiterWillBeAnswered
<1>1. IInv => WaiterWillBeAnswered
    BY DEF IInv
<1> QED BY <1>1, InteractionInvariant, PTL

-----------------------------------------------------------------------------
(* The calls that use the interaction *)

(* The calls implement the interaction: each of their steps is one of its
   steps or leaves its state alone. *)
THEOREM LocationImplementsInteraction == LocationSpec => Spec
<1>1. LocationInit => Init
    BY DEF LocationInit
<1>2. [LocationNext]_locationVars => [Next]_vars
    <2> SUFFICES ASSUME [LocationNext]_locationVars PROVE [Next]_vars
        OBVIOUS
    <2>1. CASE UNCHANGED locationVars
        BY <2>1 DEF locationVars
    <2>2. ASSUME NEW t \in Requesters,
                 \/ Begin(t) \/ Fail(t) \/ StartUpdates(t) \/ ReadLocation(t)
                 \/ Stop(t) \/ Disconnect(t)
          PROVE  UNCHANGED vars
        BY <2>2 DEF Begin, Fail, StartUpdates, ReadLocation, Stop, Disconnect
    <2>3. ASSUME NEW t \in Requesters, CheckPermission(t) \/ CheckSettings(t)
          PROVE  UNCHANGED vars \/ Choose(t, RequestGps) \/ Choose(t, EnableGps)
        BY <2>3 DEF CheckPermission, CheckSettings
    <2>4. ASSUME NEW t \in Requesters,
                 PermissionAnswered(t) \/ SettingsResolved(t) \/ OtherAnswered(t)
          PROVE  Return(t)
        BY <2>4 DEF PermissionAnswered, SettingsResolved, OtherAnswered
    <2>5. ASSUME NEW t \in Requesters, NEW c \in Codes, OtherAsks(t, c)
          PROVE  Choose(t, c)
        BY <2>5 DEF OtherAsks
    <2>6. ASSUME NEW t \in Requesters, EnterRequest(t) \/ PostRequest(t)
          PROVE  Enter(t) \/ Post(t)
        BY <2>6 DEF EnterRequest, PostRequest
    <2>7. ServeRequest => HandleMessage
        BY DEF ServeRequest
    <2>8. ASSUME NEW a \in Activities, NEW c \in Codes, UserAnswers(a, c)
          PROVE  DialogEnds(a, c)
        BY <2>8 DEF UserAnswers
    <2>9. ASSUME NEW a \in Activities, ActivityComesAndGoes(a)
          PROVE  Resume(a) \/ Connected(a) \/ Pause(a) \/ DestroyActivity(a)
        BY <2>9 DEF ActivityComesAndGoes
    <2> QED BY <2>1, <2>2, <2>3, <2>4, <2>5, <2>6, <2>7, <2>8, <2>9, LocationAssumption
            DEF LocationNext, Next
<1> QED BY <1>1, <1>2, PTL DEF LocationSpec, Spec

Steps == {"idle", "permission", "asking", "settings", "resolving", "ready", "removed", "other"}

LEMMA InitLocation == LocationInit => LocationInv
<1> SUFFICES ASSUME LocationInit PROVE LocationInv
    OBVIOUS
<1>1. IInv
    BY InitInteraction DEF LocationInit
<1>2. LocationTypeOK
    <2>1. calls \in 0 .. MaxCalls
        BY LocationAssumption DEF LocationInit
    <2>2. connected \in BOOLEAN /\ updates \in BOOLEAN /\ promised \in BOOLEAN
        BY DEF LocationInit
    <2> QED BY <2>1, <2>2 DEF LocationInit, LocationTypeOK
<1>3. AsksOneQuestion
    BY DEF LocationInit, Init, AsksOneQuestion
<1> QED BY <1>1, <1>2, <1>3 DEF LocationInv, UpdatesLast, LocationInit

(* What a step does to the calls and to the requests of their threads. *)
LEMMA GotoStep ==
  ASSUME LocationTypeOK, NEW t \in Requesters, NEW where \in Steps, Goto(t, where)
  PROVE  /\ step' \in [Requesters -> Steps]
         /\ step'[t] = where
         /\ \A u \in Requesters \ {t} : step'[u] = step[u]
  BY DEF LocationTypeOK, Goto, Steps

LEMMA PcStep ==
  ASSUME TypeOK, NEW t \in Requesters
  PROVE  /\ Return(t) => pc'[t] = "idle" /\ pc[t] # "idle"
         /\ \A c : Choose(t, c) => pc'[t] = "chosen" /\ code'[t] = c
         /\ Enter(t) \/ Post(t) => pc'[t] # "idle" /\ pc[t] # "idle" /\ code' = code
         /\ Enter(t) \/ Post(t) \/ Return(t) \/ (\E c : Choose(t, c)) =>
                \A u \in Requesters \ {t} : pc'[u] = pc[u] /\ code'[u] = code[u]
  BY DEF TypeOK, Return, Choose, Enter, Post

LEMMA StepAsks ==
  ASSUME IInv, LocationTypeOK, AsksOneQuestion, [LocationNext]_locationVars
  PROVE  AsksOneQuestion'
<1> USE DEF AsksOneQuestion
<1>1. TypeOK
    BY DEF IInv
<1>2. CASE UNCHANGED locationVars
    BY <1>2 DEF locationVars, vars, reqVars, gpsVars
<1>3. ASSUME NEW t \in Requesters, UNCHANGED vars, NEW where \in Steps, Goto(t, where),
             step[t] \notin {"asking", "resolving", "other"},
             where \notin {"asking", "resolving", "other"}
      PROVE  AsksOneQuestion'
    BY <1>3, GotoStep DEF vars, reqVars
<1>4. ASSUME NEW t \in Requesters, Begin(t) \/ Stop(t)
      PROVE  AsksOneQuestion'
    <2>1. step[t] = "idle" /\ UNCHANGED vars
        BY <1>4 DEF Begin, Stop
    <2>2. Goto(t, "permission") \/ Goto(t, "removed") \/ UNCHANGED step
        BY <1>4 DEF Begin, Stop
    <2>3. CASE UNCHANGED step
        BY <2>1, <2>3 DEF vars, reqVars
    <2> QED BY <2>1, <2>2, <2>3, <1>3 DEF Steps
<1>5. ASSUME NEW t \in Requesters,
             Fail(t) \/ StartUpdates(t) \/ ReadLocation(t) \/ Disconnect(t)
      PROVE  AsksOneQuestion'
    <2>1. step[t] \in {"ready", "removed"} /\ UNCHANGED vars /\ Goto(t, "idle")
        BY <1>5 DEF Fail, StartUpdates, ReadLocation, Disconnect
    <2> QED BY <2>1, <1>3 DEF Steps
<1>6. ASSUME NEW t \in Requesters, CheckPermission(t)
      PROVE  AsksOneQuestion'
    <2>1. CASE Goto(t, "settings") /\ UNCHANGED vars
        BY <2>1, <1>3, <1>6 DEF Steps, CheckPermission
    <2>2. CASE Goto(t, "asking") /\ Choose(t, RequestGps)
        BY <2>2, <1>1, GotoStep, PcStep DEF Steps
    <2> QED BY <1>6, <2>1, <2>2 DEF CheckPermission
<1>7. ASSUME NEW t \in Requesters, CheckSettings(t)
      PROVE  AsksOneQuestion'
    <2>1. CASE (Goto(t, "ready") \/ Goto(t, "idle")) /\ UNCHANGED vars
        BY <2>1, <1>3, <1>7 DEF Steps, CheckSettings
    <2>2. CASE Goto(t, "resolving") /\ Choose(t, EnableGps)
        BY <2>2, <1>1, GotoStep, PcStep DEF Steps
    <2> QED BY <1>7, <2>1, <2>2 DEF CheckSettings
<1>8. ASSUME NEW t \in Requesters,
             PermissionAnswered(t) \/ SettingsResolved(t) \/ OtherAnswered(t)
      PROVE  AsksOneQuestion'
    <2>1. PICK where \in {"settings", "ready", "idle"} : Goto(t, where) /\ Return(t)
        BY <1>8 DEF PermissionAnswered, SettingsResolved, OtherAnswered
    <2> QED BY <2>1, <1>1, GotoStep, PcStep DEF Steps
<1>9. ASSUME NEW t \in Requesters, NEW c \in Codes, OtherAsks(t, c)
      PROVE  AsksOneQuestion'
    <2>1. Goto(t, "other") /\ Choose(t, c)
        BY <1>9 DEF OtherAsks
    <2> QED BY <2>1, <1>1, GotoStep, PcStep DEF Steps
<1>10. ASSUME NEW t \in Requesters, EnterRequest(t) \/ PostRequest(t)
       PROVE  AsksOneQuestion'
    <2>1. (Enter(t) \/ Post(t)) /\ step' = step
        BY <1>10 DEF EnterRequest, PostRequest, gpsVars
    <2> QED BY <2>1, <1>1, PcStep
<1>11. ASSUME \/ ServeRequest
              \/ \E a \in Activities, c \in Codes : UserAnswers(a, c)
              \/ \E a \in Activities : ActivityComesAndGoes(a)
       PROVE  AsksOneQuestion'
    <2>1. UNCHANGED <<pc, code, step>>
        BY <1>11 DEF ServeRequest, HandleMessage, UserAnswers, DialogEnds, ActivityComesAndGoes,
                     Resume, Connected, Pause, DestroyActivity, gpsVars, reqVars
    <2> QED BY <2>1
<1> QED BY <1>2, <1>4, <1>5, <1>6, <1>7, <1>8, <1>9, <1>10, <1>11 DEF LocationNext

LEMMA StepUpdates ==
  ASSUME LocationTypeOK, UpdatesLast, promised => ~Stopping, [LocationNext]_locationVars
  PROVE  LocationTypeOK' /\ UpdatesLast' /\ (promised' => ~Stopping')
<1> USE DEF UpdatesLast, Stopping
<1> DEFINE Goal == LocationTypeOK' /\ UpdatesLast' /\ (promised' => ~Stopping')
<1>1. CASE UNCHANGED gpsVars
    BY <1>1 DEF gpsVars, LocationTypeOK
<1>2. ASSUME NEW t \in Requesters, NEW where \in Steps \ {"removed"}, Goto(t, where),
             UNCHANGED <<connected, updates, calls, promised>>
      PROVE  Goal
    BY <1>2, GotoStep DEF LocationTypeOK, Steps
<1>3. ASSUME NEW t \in Requesters,
             \/ CheckPermission(t) \/ PermissionAnswered(t) \/ CheckSettings(t)
             \/ SettingsResolved(t) \/ Fail(t) \/ ReadLocation(t) \/ OtherAnswered(t)
      PROVE  Goal
    <2>1. /\ UNCHANGED <<connected, updates, calls, promised>>
          /\ \E where \in Steps \ {"removed"} : Goto(t, where)
        BY <1>3 DEF CheckPermission, PermissionAnswered, CheckSettings, SettingsResolved, Fail,
                    ReadLocation, OtherAnswered, Steps
    <2> QED BY <2>1, <1>2
<1>4. Called => calls' \in 0 .. MaxCalls
    BY LocationAssumption DEF Called, LocationTypeOK
<1>5. ASSUME NEW t \in Requesters, Begin(t)
      PROVE  Goal
    <2>1. CASE connected' = TRUE /\ Goto(t, "permission")
        BY <2>1, <1>4, <1>5, GotoStep DEF Begin, LocationTypeOK, Steps
    <2>2. CASE UNCHANGED <<step, connected>>
        BY <2>2, <1>4, <1>5 DEF Begin, LocationTypeOK
    <2> QED BY <1>5, <2>1, <2>2 DEF Begin
<1>6. ASSUME NEW t \in Requesters, StartUpdates(t)
      PROVE  Goal
    <2>1. /\ Goto(t, "idle") /\ connected /\ updates' = TRUE
          /\ promised' = (promised \/ ~Stopping) /\ UNCHANGED <<connected, calls>>
        BY <1>6 DEF StartUpdates
    <2>2. promised' => ~Stopping
        BY <2>1
    <2> QED BY <2>1, <2>2, GotoStep DEF LocationTypeOK, Steps
<1>7. ASSUME NEW t \in Requesters, Stop(t)
      PROVE  Goal
    <2>1. CASE updates' = FALSE /\ Goto(t, "removed")
        BY <2>1, <1>4, <1>7, GotoStep DEF Stop, LocationTypeOK, Steps
    <2>2. CASE UNCHANGED <<updates, step>>
        BY <2>2, <1>4, <1>7 DEF Stop, LocationTypeOK
    <2> QED BY <1>7, <2>1, <2>2 DEF Stop
<1>8. ASSUME NEW t \in Requesters, Disconnect(t)
      PROVE  Goal
    <2>1. ~promised
        BY <1>8 DEF Disconnect
    <2> QED BY <2>1, <1>8, GotoStep DEF Disconnect, LocationTypeOK, Steps
<1>9. ASSUME NEW t \in Requesters, NEW c \in Codes, OtherAsks(t, c)
      PROVE  Goal
    BY <1>4, <1>9, GotoStep DEF OtherAsks, LocationTypeOK, Steps
<1>10. ASSUME NEW t \in Requesters, EnterRequest(t) \/ PostRequest(t)
       PROVE  UNCHANGED gpsVars
    BY <1>10 DEF EnterRequest, PostRequest
<1>11. ASSUME \/ ServeRequest
              \/ \E a \in Activities, c \in Codes : UserAnswers(a, c)
              \/ \E a \in Activities : ActivityComesAndGoes(a)
       PROVE  UNCHANGED gpsVars
    BY <1>11 DEF ServeRequest, UserAnswers, ActivityComesAndGoes
<1>12. UNCHANGED locationVars => UNCHANGED gpsVars
    BY DEF locationVars
<1> QED BY <1>1, <1>3, <1>5, <1>6, <1>7, <1>8, <1>9, <1>10, <1>11, <1>12 DEF LocationNext

(* The invariant of the calls together with the interaction they use. *)
THEOREM LocationInvariant == LocationSpec => []LocationInv
<1> DEFINE Calls == /\ LocationTypeOK /\ AsksOneQuestion /\ UpdatesLast
                    /\ promised => ~Stopping
<1>1. LocationInit => Calls
    BY InitLocation DEF LocationInv
<1>2. IInv /\ Calls /\ [LocationNext]_locationVars => Calls'
    BY StepAsks, StepUpdates
<1>3. LocationSpec => []IInv
    BY LocationImplementsInteraction, InteractionInvariant, PTL
<1>4. LocationSpec => []Calls
    BY <1>1, <1>2, <1>3, PTL DEF LocationSpec
<1>5. IInv /\ Calls => LocationInv
    BY DEF LocationInv
<1> QED BY <1>3, <1>4, <1>5, PTL

(* Between a start that succeeded and the next stop nothing ends the updates. *)
THEOREM UpdatesLastHolds == LocationSpec => []UpdatesLast
<1>1. LocationInv => UpdatesLast
    BY DEF LocationInv
<1> QED BY <1>1, LocationInvariant, PTL

-----------------------------------------------------------------------------
(* The conversation: AssistantDispatcher and the activity that comes and goes *)

ChatTask == Nat \X (Kinds \cup {"ready"})
ChatMessage == FromEngine \cup {FromUser}
Posts == FromEngine \cup {"after", "clear"}

(* removeButtons leaves the beginning of the history, up to the last message
   that is not a button or a question. *)
LEMMA WithoutButtonsShape ==
  ASSUME NEW h \in Seq(ChatMessage)
  PROVE  \E last \in 0 .. Len(h) :
            /\ WithoutButtons(h) \in Seq(ChatMessage)
            /\ Len(WithoutButtons(h)) = last
            /\ \A i \in 1 .. last : WithoutButtons(h)[i] = h[i]
            /\ last # 0 => ~IsInteraction(h[last])
<1> DEFINE others == {i \in DOMAIN h : ~IsInteraction(h[i])}
           last == IF others = {} THEN 0
                   ELSE CHOOSE i \in others : \A j \in others : j <= i
<1>1. Len(h) \in Nat /\ DOMAIN h = 1 .. Len(h)
  BY LenProperties
<1>2. last \in 0 .. Len(h) /\ (last # 0 => ~IsInteraction(h[last]))
  <2>1. CASE others = {}
    BY <1>1, <2>1
  <2>2. CASE others # {}
    <3>1. \E i \in others : \A j \in others : j <= i
      BY <1>1, <2>2, Greatest
    <3>2. last \in others
      BY <2>2, <3>1
    <3> QED BY <1>1, <3>2
  <2> QED BY <2>1, <2>2
<1>3. WithoutButtons(h) = SubSeq(h, 1, last)
  BY DEF WithoutButtons
<1> HIDE DEF last, others
<1>4. \A i \in 1 .. last : h[i] \in ChatMessage
  BY <1>1, <1>2, ElementOfSeq
<1>5. /\ SubSeq(h, 1, last) \in Seq(ChatMessage)
      /\ Len(SubSeq(h, 1, last)) = last
      /\ \A i \in 1 .. last : SubSeq(h, 1, last)[i] = h[i]
  BY <1>1, <1>2, <1>4, SubSeqProperties
<1> QED BY <1>2, <1>3, <1>5

LEMMA InitChatInv == ChatInit => ChatInv
<1> SUFFICES ASSUME ChatInit PROVE ChatInv
  OBVIOUS
<1>1. counts \in [messages : 0 .. MaxMessages, commands : 0 .. MaxCommands,
                   ready : 0 .. MaxReady]
  BY AssistantAssumption DEF ChatInit
<1>2. history = <<>> /\ DOMAIN history = {}
  BY EmptySeq DEF ChatInit
<1>3. ChatTypeOK
  BY <1>1, <1>2, EmptySeq DEF ChatInit, ChatTypeOK
<1>4. CommandsInOrder /\ TasksInOrder /\ ProgressEnds /\ ConnectedInv
  BY EmptySeq
     DEF ChatInit, CommandsInOrder, TasksInOrder, ProgressEnds, ConnectedInv
<1> QED BY <1>3, <1>4 DEF ChatInv

(* A new task is the last of the executor's queue; a command has the next number. *)
LEMMA TaskGiven ==
  ASSUME ChatInv, NEW t \in ChatTask, async' = Append(async, t), UNCHANGED received,
         \/ ~IsCommand(t) /\ counts'.commands = counts.commands
         \/ t[1] = counts.commands + 1 /\ counts'.commands = counts.commands + 1
            /\ IsCommand(t)
  PROVE  async' \in Seq(ChatTask) /\ TasksInOrder'
<1>1. async \in Seq(ChatTask) /\ counts.commands \in Nat /\ Len(received) \in Nat
  BY LenProperties, AssistantAssumption DEF ChatInv, ChatTypeOK, Task, ChatTask
<1>2. /\ async' \in Seq(ChatTask) /\ Len(async) \in Nat
      /\ DOMAIN async = 1 .. Len(async) /\ DOMAIN async' = 1 .. Len(async) + 1
      /\ \A i \in 1 .. Len(async) : async'[i] = async[i] /\ async[i] \in ChatTask
      /\ async'[Len(async) + 1] = t
  BY <1>1, AppendPlaces
<1>3. \A i \in DOMAIN async' : i \in 1 .. Len(async) \/ i = Len(async) + 1
  BY <1>2
<1>4. \A i \in 1 .. Len(async) : IsCommand(async[i]) =>
         Len(received) < async[i][1] /\ async[i][1] <= counts.commands /\ async[i][1] \in Nat
  BY <1>2 DEF ChatInv, TasksInOrder, ChatTask
<1>5. \A i, j \in 1 .. Len(async) : IsCommand(async[i]) /\ IsCommand(async[j]) /\ i < j
         => async[i][1] < async[j][1]
  BY <1>2 DEF ChatInv, TasksInOrder
<1>6. Len(received) <= counts.commands
  BY DEF ChatInv, TasksInOrder
<1>7. \A i \in DOMAIN async' : IsCommand(async'[i])
         => Len(received') < async'[i][1] /\ async'[i][1] <= counts'.commands
  BY <1>1, <1>2, <1>3, <1>4, <1>6 DEF ChatTask
<1>8. \A i, j \in DOMAIN async' : IsCommand(async'[i]) /\ IsCommand(async'[j]) /\ i < j
         => async'[i][1] < async'[j][1]
  <2> SUFFICES ASSUME NEW i \in DOMAIN async', NEW j \in DOMAIN async',
                      IsCommand(async'[i]), IsCommand(async'[j]), i < j
               PROVE  async'[i][1] < async'[j][1]
    OBVIOUS
  <2>1. i \in 1 .. Len(async)
    BY <1>2
  <2>2. CASE j \in 1 .. Len(async)
    BY <1>2, <1>5, <2>1, <2>2
  <2>3. CASE j = Len(async) + 1
    BY <1>1, <1>2, <1>4, <2>1, <2>3
  <2> QED BY <1>3, <2>2, <2>3
<1>9. ASSUME NEW n \in Len(received') + 1 .. counts'.commands
      PROVE  \E i \in DOMAIN async' : IsCommand(async'[i]) /\ async'[i][1] = n
  <2>1. CASE n <= counts.commands
    <3>1. PICK i \in DOMAIN async : IsCommand(async[i]) /\ async[i][1] = n
      BY <1>1, <2>1 DEF ChatInv, TasksInOrder
    <3> QED BY <1>2, <3>1
  <2>2. CASE ~(n <= counts.commands)
    <3>1. IsCommand(t) /\ t[1] = counts.commands + 1 /\ counts'.commands = counts.commands + 1
      BY <1>1, <2>2
    <3>2. n = t[1]
      BY <1>1, <1>6, <2>2, <3>1
    <3>3. Len(async) + 1 \in DOMAIN async'
      BY <1>2
    <3> QED BY <1>2, <3>1, <3>2, <3>3
  <2> QED BY <2>1, <2>2
<1>10. Len(received') <= counts'.commands
  BY <1>1, <1>6
<1> QED BY <1>2, <1>7, <1>8, <1>9, <1>10 DEF TasksInOrder

(* The task that is taken is the oldest; if it is a command, its number is the
   next that JavaScript receives. *)
LEMMA TaskTaken ==
  ASSUME ChatInv, Run
  PROVE  /\ async' \in Seq(ChatTask) /\ running' \in ChatTask /\ received' \in Seq(Nat)
         /\ TasksInOrder' /\ CommandsInOrder'
<1>1. /\ async \in Seq(ChatTask) /\ counts.commands \in Nat
      /\ received \in Seq(Nat) /\ Len(received) \in Nat
  BY LenProperties DEF ChatInv, ChatTypeOK, Task, ChatTask
<1>2. /\ async # <<>> /\ running' = Head(async) /\ async' = Tail(async)
      /\ received' = (IF IsCommand(running') THEN Append(received, running'[1]) ELSE received)
      /\ counts' = counts
  BY DEF Run, Take
<1>3. /\ async' \in Seq(ChatTask) /\ running' = async[1] /\ async[1] \in ChatTask
      /\ Len(async) \in Nat \ {0}
      /\ DOMAIN async = 1 .. Len(async) /\ DOMAIN async' = 1 .. Len(async) - 1
      /\ \A i \in 1 .. Len(async) - 1 : async'[i] = async[i + 1]
      /\ \A i \in 2 .. Len(async) : i - 1 \in 1 .. Len(async) - 1 /\ async'[i - 1] = async[i]
  BY <1>1, <1>2, TailPlaces
<1>4. \A i \in 1 .. Len(async) - 1 : i + 1 \in 1 .. Len(async)
  BY <1>3
<1>5. \A i \in 1 .. Len(async) : async[i] \in ChatTask /\ async[i][1] \in Nat
  BY <1>1, <1>3, ElementOfSeq DEF ChatTask
<1>6. /\ \A i \in DOMAIN async : IsCommand(async[i])
            => Len(received) < async[i][1] /\ async[i][1] <= counts.commands
      /\ \A i, j \in DOMAIN async : IsCommand(async[i]) /\ IsCommand(async[j]) /\ i < j
            => async[i][1] < async[j][1]
      /\ \A n \in Len(received) + 1 .. counts.commands :
            \E i \in DOMAIN async : IsCommand(async[i]) /\ async[i][1] = n
      /\ Len(received) <= counts.commands
  BY DEF ChatInv, TasksInOrder
<1>7. /\ received' \in Seq(Nat) /\ Len(received') \in Nat
      /\ ~IsCommand(async[1]) => Len(received') = Len(received)
      /\ IsCommand(async[1]) => /\ Len(received') = Len(received) + 1
                                /\ async[1][1] = Len(received) + 1
      /\ CommandsInOrder'
  <2>1. CASE ~IsCommand(async[1])
    BY <1>1, <1>2, <1>3, <2>1 DEF ChatInv, CommandsInOrder
  <2>2. CASE IsCommand(async[1])
    <3>1. 1 \in DOMAIN async
      BY <1>3
    <3>2. async[1][1] = Len(received) + 1
      <4>1. Len(received) < async[1][1] /\ async[1][1] <= counts.commands
        BY <1>6, <2>2, <3>1
      <4>2. Len(received) + 1 \in Len(received) + 1 .. counts.commands
        BY <1>1, <1>5, <3>1, <1>3, <4>1
      <4>3. PICK i \in DOMAIN async : IsCommand(async[i]) /\ async[i][1] = Len(received) + 1
        BY <1>6, <4>2
      <4>4. i = 1 \/ 1 < i
        BY <1>3
      <4>5. 1 < i => async[1][1] < async[i][1]
        BY <1>6, <2>2, <3>1, <4>3
      <4> QED BY <1>1, <1>3, <1>5, <3>1, <4>1, <4>3, <4>4, <4>5
    <3>3. /\ received' = Append(received, async[1][1]) /\ async[1][1] \in Nat
      BY <1>2, <1>3, <1>5, <2>2, <3>1
    <3>4. /\ received' \in Seq(Nat)
          /\ Len(received') = Len(received) + 1
          /\ DOMAIN received = 1 .. Len(received)
          /\ DOMAIN received' = 1 .. Len(received) + 1
          /\ \A i \in 1 .. Len(received) : received'[i] = received[i]
          /\ received'[Len(received) + 1] = async[1][1]
      BY <1>1, <3>3, AppendPlaces
    <3>5. \A i \in DOMAIN received' : i \in 1 .. Len(received) \/ i = Len(received) + 1
      BY <1>1, <3>4
    <3>6. CommandsInOrder'
      BY <3>2, <3>4, <3>5 DEF ChatInv, CommandsInOrder
    <3> QED BY <1>1, <2>2, <3>2, <3>4, <3>6
  <2> QED BY <2>1, <2>2
<1>8. ASSUME NEW i \in DOMAIN async', IsCommand(async'[i])
      PROVE  Len(received') < async'[i][1] /\ async'[i][1] <= counts'.commands
  <2>1. /\ i + 1 \in DOMAIN async /\ 1 \in DOMAIN async /\ 1 < i + 1
        /\ async'[i] = async[i + 1]
    BY <1>3, <1>4
  <2>2. Len(received) < async[i + 1][1] /\ async[i + 1][1] <= counts.commands
    BY <1>6, <1>8, <2>1
  <2>3. IsCommand(async[1]) => async[1][1] < async[i + 1][1]
    BY <1>6, <1>8, <2>1
  <2>4. async[i + 1][1] \in Nat
    BY <1>3, <1>5, <2>1
  <2> QED BY <1>1, <1>2, <1>7, <2>1, <2>2, <2>3, <2>4
<1>9. ASSUME NEW i \in DOMAIN async', NEW j \in DOMAIN async',
             IsCommand(async'[i]), IsCommand(async'[j]), i < j
      PROVE  async'[i][1] < async'[j][1]
  <2>1. /\ i + 1 \in DOMAIN async /\ j + 1 \in DOMAIN async /\ i + 1 < j + 1
        /\ async'[i] = async[i + 1] /\ async'[j] = async[j + 1]
    BY <1>3, <1>4, <1>9
  <2> QED BY <1>6, <1>9, <2>1
<1>10. ASSUME NEW n \in Len(received') + 1 .. counts'.commands
       PROVE  \E i \in DOMAIN async' : IsCommand(async'[i]) /\ async'[i][1] = n
  <2>1. n \in Len(received) + 1 .. counts.commands
    BY <1>1, <1>2, <1>7
  <2>2. PICK i \in DOMAIN async : IsCommand(async[i]) /\ async[i][1] = n
    BY <1>6, <2>1
  <2>3. i # 1
    BY <1>1, <1>7, <2>2
  <2>4. i \in 2 .. Len(async)
    BY <1>3, <2>3
  <2>5. i - 1 \in DOMAIN async' /\ async'[i - 1] = async[i]
    BY <1>3, <2>4
  <2> QED BY <2>2, <2>5
<1>11. Len(received') <= counts'.commands
  <2>1. IsCommand(async[1]) => async[1][1] <= counts.commands
    BY <1>3, <1>6
  <2> QED BY <1>1, <1>2, <1>6, <1>7, <2>1
<1>12. TasksInOrder'
  BY <1>8, <1>9, <1>10, <1>11 DEF TasksInOrder
<1> QED BY <1>3, <1>7, <1>12

(* A history holds nothing that is filtered; and, for NoButtonsBeforeAnswer,
   no button right before what the user said. *)
ChatHistory(h) == h \in Seq(ChatMessage) /\ \A i \in DOMAIN h : ~IsFiltered(h[i])
Clean(h) == \A i \in 1 .. Len(h) - 1 : h[i + 1] = FromUser => ~IsInteraction(h[i])

LEMMA MessageAdded ==
  ASSUME NEW h, ChatHistory(h), NEW m \in ChatMessage
  PROVE  /\ ChatHistory(Added(h, m))
         /\ Clean(h) /\ (m = FromUser /\ Len(h) # 0 => ~IsInteraction(h[Len(h)]))
              => Clean(Added(h, m))
<1>1. CASE IsFiltered(m)
  BY <1>1 DEF Added
<1>2. CASE ~IsFiltered(m)
  <2>1. h \in Seq(ChatMessage) /\ Added(h, m) = Append(h, m)
    BY <1>2 DEF ChatHistory, Added
  <2>2. /\ Append(h, m) \in Seq(ChatMessage) /\ Len(h) \in Nat
        /\ Len(Append(h, m)) = Len(h) + 1
        /\ DOMAIN h = 1 .. Len(h) /\ DOMAIN Append(h, m) = 1 .. Len(h) + 1
        /\ \A i \in 1 .. Len(h) : Append(h, m)[i] = h[i]
        /\ Append(h, m)[Len(h) + 1] = m
    BY <2>1, AppendPlaces
  <2>3. \A i \in 1 .. Len(h) + 1 : i \in 1 .. Len(h) \/ i = Len(h) + 1
    BY <2>2
  <2>4. ChatHistory(Append(h, m))
    BY <1>2, <2>2, <2>3 DEF ChatHistory
  <2>5. ASSUME Clean(h), m = FromUser /\ Len(h) # 0 => ~IsInteraction(h[Len(h)]),
               NEW i \in 1 .. (Len(h) + 1) - 1, Append(h, m)[i + 1] = FromUser
        PROVE  ~IsInteraction(Append(h, m)[i])
    <3>1. i \in 1 .. Len(h)
      BY <2>2
    <3>2. CASE i = Len(h)
      BY <2>2, <2>5, <3>1, <3>2
    <3>3. CASE i # Len(h)
      <4>1. i \in 1 .. Len(h) - 1 /\ i + 1 \in 1 .. Len(h)
        BY <2>2, <3>1, <3>3
      <4>2. h[i + 1] = FromUser
        BY <2>2, <2>5, <4>1
      <4> QED BY <2>2, <2>5, <3>1, <4>1, <4>2 DEF Clean
    <3> QED BY <3>2, <3>3
  <2> QED BY <2>1, <2>2, <2>4, <2>5 DEF Clean
<1> QED BY <1>1, <1>2

LEMMA ButtonsRemoved ==
  ASSUME NEW h, ChatHistory(h)
  PROVE  /\ ChatHistory(WithoutButtons(h))
         /\ Len(WithoutButtons(h)) \in Nat /\ Len(WithoutButtons(h)) <= Len(h)
         /\ Len(WithoutButtons(h)) # 0
              => ~IsInteraction(WithoutButtons(h)[Len(WithoutButtons(h))])
         /\ Clean(h) => Clean(WithoutButtons(h))
<1>1. h \in Seq(ChatMessage) /\ Len(h) \in Nat /\ DOMAIN h = 1 .. Len(h)
  BY LenProperties DEF ChatHistory
<1>2. PICK last \in 0 .. Len(h) :
         /\ WithoutButtons(h) \in Seq(ChatMessage)
         /\ Len(WithoutButtons(h)) = last
         /\ \A i \in 1 .. last : WithoutButtons(h)[i] = h[i]
         /\ last # 0 => ~IsInteraction(h[last])
  BY <1>1, WithoutButtonsShape
<1>3. /\ DOMAIN WithoutButtons(h) = 1 .. last
      /\ \A i \in 1 .. last : i \in 1 .. Len(h)
      /\ \A i \in 1 .. last - 1 : i \in 1 .. Len(h) - 1 /\ i \in 1 .. last /\ i + 1 \in 1 .. last
      /\ last # 0 => last \in 1 .. last
  BY <1>1, <1>2, LenProperties
<1>4. ChatHistory(WithoutButtons(h))
  BY <1>1, <1>2, <1>3 DEF ChatHistory
<1>5. Clean(h) => Clean(WithoutButtons(h))
  BY <1>2, <1>3 DEF Clean
<1> QED BY <1>1, <1>2, <1>3, <1>4, <1>5

(* What a command leaves of the history. *)
LEMMA CommandLeaves ==
  ASSUME ChatHistory(history), NEW kind \in Kinds
  PROVE  /\ ChatHistory(AfterCommand(kind))
         /\ Clean(history) => Clean(AfterCommand(kind))
         /\ Len(AfterCommand(kind)) > Len(history) => Last(AfterCommand(kind)) = FromUser
<1>1. CASE kind = "say"
  <2> DEFINE w == WithoutButtons(history)
  <2>1. /\ ChatHistory(w)
        /\ Clean(history) => Clean(w)
        /\ Len(w) # 0 => ~IsInteraction(w[Len(w)])
        /\ w \in Seq(ChatMessage)
    BY ButtonsRemoved DEF ChatHistory
  <2>2. AfterCommand(kind) = Added(w, FromUser) /\ Added(w, FromUser) = Append(w, FromUser)
    BY <1>1 DEF AfterCommand, Added, IsFiltered, Asks, FromUser
  <2>3. FromUser \in ChatMessage
    BY DEF ChatMessage
  <2>4. Last(Append(w, FromUser)) = FromUser
    BY <2>1, <2>3, AppendPlaces DEF Last
  <2> HIDE DEF w
  <2> QED BY <2>1, <2>2, <2>3, <2>4, MessageAdded
<1>2. CASE kind = "help"
  <2>1. AfterCommand(kind) = WithoutButtons(history)
    BY <1>2 DEF AfterCommand
  <2>2. Len(history) \in Nat
    BY LenProperties DEF ChatHistory
  <2> QED BY <2>1, <2>2, ButtonsRemoved
<1>3. CASE kind = "clear"
  <2>1. AfterCommand(kind) = history
    BY <1>3 DEF AfterCommand
  <2>2. Len(history) \in Nat
    BY LenProperties DEF ChatHistory
  <2> QED BY <2>1, <2>2
<1> QED BY <1>1, <1>2, <1>3 DEF Kinds

(* The rest of the typing predicate, apart from the history and the tasks. *)
ChatRest ==
    /\ notifications \in Seq(FromEngine)
    /\ asking \in Asks \cup {"none"}
    /\ output \in BOOLEAN
    /\ mainLooper \in Seq(Posts)
    /\ counts \in [messages : 0 .. MaxMessages, commands : 0 .. MaxCommands,
                   ready : 0 .. MaxReady]
    /\ front \in BOOLEAN /\ hasBinder \in BOOLEAN
    /\ uiAsk \in Asks \cup {"none"}
    /\ inCommand \in BOOLEAN /\ missed \in BOOLEAN

ChatTasks ==
    async \in Seq(ChatTask) /\ running \in ChatTask \cup {<<>>} /\ received \in Seq(Nat)

LEMMA ChatTypeParts == ChatTypeOK <=> ChatHistory(history) /\ ChatTasks /\ ChatRest
BY DEF ChatTypeOK, ChatHistory, ChatTasks, ChatRest, ChatMessage, ChatTask, Task, Posts

(* Steps that leave the executor alone. *)
LEMMA TasksUntouched ==
  ASSUME ChatInv, UNCHANGED <<async, running, received>>, counts'.commands = counts.commands
  PROVE  ChatTasks' /\ CommandsInOrder' /\ TasksInOrder'
<1>1. ChatTasks'
  BY ChatTypeParts DEF ChatInv, ChatTasks
<1>2. CommandsInOrder'
  BY DEF ChatInv, CommandsInOrder
<1>3. TasksInOrder'
  BY DEF ChatInv, TasksInOrder
<1> QED BY <1>1, <1>2, <1>3

LEMMA StepCommand ==
  ASSUME ChatInv, NEW kind \in Kinds, Command(kind)
  PROVE  ChatInv'
<1> DEFINE t == <<counts.commands + 1, kind>>
<1>1. ChatHistory(history) /\ ChatTasks /\ ChatRest
  BY ChatTypeParts DEF ChatInv
<1>2. counts.commands \in 0 .. MaxCommands /\ MaxCommands \in Nat
  BY <1>1, AssistantAssumption DEF ChatRest
<1>3. /\ counts.commands < MaxCommands
      /\ counts' = [counts EXCEPT !.commands = @ + 1]
      /\ inCommand' = (inCommand \/ output)
      /\ async' = Append(async, t)
      /\ history' = AfterCommand(kind)
      /\ UNCHANGED <<notifications, asking, output, mainLooper, running, received, front,
                     hasBinder, uiAsk, missed>>
  BY DEF Command
<1>4. t \in ChatTask /\ IsCommand(t) /\ t[1] = counts.commands + 1
  BY <1>2 DEF ChatTask, IsCommand, Kinds
<1>5. counts' \in [messages : 0 .. MaxMessages, commands : 0 .. MaxCommands,
                   ready : 0 .. MaxReady]
      /\ counts'.commands = counts.commands + 1
  BY <1>1, <1>2, <1>3 DEF ChatRest
<1> HIDE DEF t
<1>6. async' \in Seq(ChatTask) /\ TasksInOrder'
  BY <1>3, <1>4, <1>5, TaskGiven
<1>7. ChatHistory(history')
  BY <1>1, <1>3, CommandLeaves
<1>8. ChatTypeOK'
  BY <1>1, <1>3, <1>5, <1>6, <1>7, ChatTypeParts
     DEF ChatHistory, ChatTasks, ChatRest, ChatTypeOK, ChatMessage, ChatTask, Task, Posts
<1>9. CommandsInOrder'
  BY <1>3 DEF ChatInv, CommandsInOrder
<1>10. ConnectedInv'
  BY <1>3 DEF ChatInv, ConnectedInv
<1>11. Pending'
  <2>1. Len(async) + 1 \in DOMAIN async' /\ async'[Len(async) + 1] = t
    <3>1. async \in Seq(ChatTask)
      BY <1>1 DEF ChatTasks
    <3> QED BY <1>3, <1>4, <3>1, AppendPlaces
  <2> QED BY <1>4, <2>1 DEF Pending
<1> QED BY <1>6, <1>8, <1>9, <1>10, <1>11 DEF ChatInv, ProgressEnds

LEMMA StepRun ==
  ASSUME ChatInv, Run
  PROVE  ChatInv'
<1>1. ChatHistory(history) /\ ChatTasks /\ ChatRest
  BY ChatTypeParts DEF ChatInv
<1>2. /\ async' \in Seq(ChatTask) /\ running' \in ChatTask /\ received' \in Seq(Nat)
      /\ TasksInOrder' /\ CommandsInOrder'
  BY TaskTaken
<1>3. /\ running = <<>> /\ async # <<>>
      /\ running' = Head(async) /\ async' = Tail(async)
      /\ UNCHANGED <<history, notifications, asking, output, mainLooper, counts, front,
                     hasBinder, uiAsk, inCommand, missed>>
  BY DEF Run, Take, engineVars, chatUIVars
<1>4. ChatTypeOK'
  BY <1>1, <1>2, <1>3
     DEF ChatHistory, ChatTasks, ChatRest, ChatTypeOK, ChatMessage, ChatTask, Task, Posts
<1>5. ConnectedInv'
  BY <1>3 DEF ChatInv, ConnectedInv
<1>6. Pending => Pending'
  <2>1. /\ running' = async[1] /\ running' \in ChatTask /\ Len(async) \in Nat \ {0}
        /\ DOMAIN async = 1 .. Len(async) /\ DOMAIN async' = 1 .. Len(async) - 1
        /\ \A i \in 2 .. Len(async) : i - 1 \in 1 .. Len(async) - 1 /\ async'[i - 1] = async[i]
    BY <1>1, <1>3, TailPlaces DEF ChatTasks
  <2>2. running' # <<>>
    BY <2>1 DEF ChatTask
  <2>3. ASSUME NEW i \in DOMAIN async, IsCommand(async[i]) PROVE Pending'
    <3>1. i = 1 \/ i \in 2 .. Len(async)
      BY <2>1
    <3> QED BY <2>1, <2>2, <2>3, <3>1 DEF Pending
  <2> QED BY <1>3, <2>3 DEF Pending
<1> QED BY <1>2, <1>3, <1>4, <1>5, <1>6 DEF ChatInv, ProgressEnds

(* What is put at the end of the main thread's messages, and what is taken
   from their beginning. *)
LEMMA PostAppended ==
  ASSUME mainLooper \in Seq(Posts), NEW m \in Posts, mainLooper' = Append(mainLooper, m)
  PROVE  /\ mainLooper' \in Seq(Posts)
         /\ \E i \in DOMAIN mainLooper' : mainLooper'[i] = m
         /\ \A i \in DOMAIN mainLooper : i \in DOMAIN mainLooper' /\ mainLooper'[i] = mainLooper[i]
<1>1. /\ mainLooper' \in Seq(Posts) /\ Len(mainLooper) \in Nat
      /\ DOMAIN mainLooper = 1 .. Len(mainLooper)
      /\ DOMAIN mainLooper' = 1 .. Len(mainLooper) + 1
      /\ \A i \in 1 .. Len(mainLooper) : mainLooper'[i] = mainLooper[i]
      /\ mainLooper'[Len(mainLooper) + 1] = m
  BY AppendPlaces
<1>2. \A i \in 1 .. Len(mainLooper) : i \in 1 .. Len(mainLooper) + 1
  BY <1>1
<1>3. Len(mainLooper) + 1 \in 1 .. Len(mainLooper) + 1
  BY <1>1
<1> QED BY <1>1, <1>2, <1>3

LEMMA Handled ==
  ASSUME mainLooper \in Seq(Posts), mainLooper # <<>>, mainLooper' = Tail(mainLooper),
         Head(mainLooper) \in FromEngine
  PROVE  /\ mainLooper' \in Seq(Posts)
         /\ (\E i \in DOMAIN mainLooper : mainLooper[i] \in {"after", "clear"})
              => \E i \in DOMAIN mainLooper' : mainLooper'[i] \in {"after", "clear"}
<1>1. /\ mainLooper' \in Seq(Posts) /\ Head(mainLooper) = mainLooper[1]
      /\ Len(mainLooper) \in Nat \ {0}
      /\ DOMAIN mainLooper = 1 .. Len(mainLooper)
      /\ DOMAIN mainLooper' = 1 .. Len(mainLooper) - 1
      /\ \A i \in 2 .. Len(mainLooper) : /\ i - 1 \in 1 .. Len(mainLooper) - 1
                                         /\ mainLooper'[i - 1] = mainLooper[i]
  BY TailPlaces
<1>2. mainLooper[1] \notin {"after", "clear"}
  BY <1>1 DEF FromEngine, Asks
<1>3. \A i \in DOMAIN mainLooper : i = 1 \/ i \in 2 .. Len(mainLooper)
  BY <1>1
<1> QED BY <1>1, <1>2, <1>3

LEMMA StepFinish ==
  ASSUME ChatInv, Finish
  PROVE  ChatInv'
<1>1. ChatHistory(history) /\ ChatTasks /\ ChatRest
  BY ChatTypeParts DEF ChatInv
<1>2. /\ running # <<>> /\ running' = <<>>
      /\ mainLooper' = (CASE running[2] = "ready" -> mainLooper
                          [] running[2] = "clear" -> Append(mainLooper, "clear")
                          [] OTHER                -> Append(mainLooper, "after"))
      /\ UNCHANGED <<history, notifications, asking, output, async, received, counts, front,
                     hasBinder, uiAsk, inCommand, missed>>
  BY DEF Finish, engineVars, chatUIVars
<1>3. ChatTasks'
  BY <1>1, <1>2 DEF ChatTasks
<1>4. CommandsInOrder' /\ TasksInOrder' /\ ConnectedInv'
  BY <1>2 DEF ChatInv, CommandsInOrder, TasksInOrder, ConnectedInv
<1>5. mainLooper' \in Seq(Posts) /\ (Pending => Pending')
  <2>1. mainLooper \in Seq(Posts)
    BY <1>1 DEF ChatRest
  <2>2. CASE running[2] = "ready"
    BY <1>2, <2>1, <2>2 DEF Pending, IsCommand
  <2>3. ASSUME NEW m \in {"after", "clear"}, mainLooper' = Append(mainLooper, m)
        PROVE  mainLooper' \in Seq(Posts) /\ Pending'
    BY <2>1, <2>3, PostAppended DEF Pending, Posts
  <2> QED BY <1>2, <2>2, <2>3
<1>6. ChatTypeOK'
  BY <1>1, <1>2, <1>3, <1>5
     DEF ChatHistory, ChatTasks, ChatRest, ChatTypeOK, ChatMessage, ChatTask, Task, Posts
<1> QED BY <1>2, <1>4, <1>5, <1>6 DEF ChatInv, ProgressEnds

LEMMA StepDispatch ==
  ASSUME ChatInv, NEW m \in FromEngine, Dispatch(m)
  PROVE  ChatInv'
<1>1. ChatHistory(history) /\ ChatTasks /\ ChatRest
  BY ChatTypeParts DEF ChatInv
<1>2. /\ counts.messages < MaxMessages
      /\ counts' = [counts EXCEPT !.messages = @ + 1]
      /\ mainLooper' = Append(mainLooper, m)
      /\ UNCHANGED <<history, notifications, asking, output, async, running, received, front,
                     hasBinder, uiAsk, inCommand, missed>>
  BY DEF Dispatch, engineVars, chatUIVars
<1>3. /\ counts' \in [messages : 0 .. MaxMessages, commands : 0 .. MaxCommands,
                      ready : 0 .. MaxReady]
      /\ counts'.commands = counts.commands
  BY <1>1, <1>2, AssistantAssumption DEF ChatRest
<1>4. ChatTasks' /\ CommandsInOrder' /\ TasksInOrder'
  BY <1>2, <1>3, TasksUntouched
<1>5. m \in Posts /\ mainLooper \in Seq(Posts)
  BY <1>1 DEF Posts, ChatRest
<1>6. mainLooper' \in Seq(Posts) /\ (Pending => Pending')
  BY <1>2, <1>5, PostAppended DEF Pending
<1>7. ChatTypeOK'
  BY <1>1, <1>2, <1>3, <1>4, <1>6
     DEF ChatHistory, ChatTasks, ChatRest, ChatTypeOK, ChatMessage, ChatTask, Task, Posts
<1>8. ConnectedInv'
  BY <1>2 DEF ChatInv, ConnectedInv
<1> QED BY <1>2, <1>4, <1>6, <1>7, <1>8 DEF ChatInv, ProgressEnds

LEMMA StepHandleDispatched ==
  ASSUME ChatInv, HandleDispatched
  PROVE  ChatInv'
<1> DEFINE m == Head(mainLooper)
<1>1. ChatHistory(history) /\ ChatTasks /\ ChatRest
  BY ChatTypeParts DEF ChatInv
<1>2. /\ mainLooper # <<>> /\ m \in FromEngine
      /\ history' = Added(history, m)
      /\ asking' = (IF m \in Asks THEN m ELSE asking)
      /\ Inform(m)
      /\ mainLooper' = Tail(mainLooper)
      /\ UNCHANGED <<output, async, running, received, counts, front, hasBinder, inCommand,
                     missed>>
  BY DEF HandleDispatched
<1> HIDE DEF m
<1>3. ChatTasks' /\ CommandsInOrder' /\ TasksInOrder'
  BY <1>2, TasksUntouched
<1>4. mainLooper' \in Seq(Posts) /\ (Pending => Pending')
  BY <1>1, <1>2, Handled DEF ChatRest, Pending, m
<1>5. ChatHistory(history')
  BY <1>1, <1>2, MessageAdded DEF ChatMessage
<1>6. /\ notifications' \in Seq(FromEngine) /\ uiAsk' \in Asks \cup {"none"}
      /\ asking' \in Asks \cup {"none"}
  <2>1. /\ notifications \in Seq(FromEngine)
        /\ uiAsk \in Asks \cup {"none"} /\ asking \in Asks \cup {"none"}
    BY <1>1 DEF ChatRest
  <2>2. Append(notifications, m) \in Seq(FromEngine)
    BY <1>2, <2>1, AppendProperties
  <2>3. /\ notifications' = notifications \/ notifications' = Append(notifications, m)
        /\ uiAsk' = uiAsk \/ (m \in Asks /\ uiAsk' = m)
    BY <1>2 DEF Inform
  <2> QED BY <1>2, <2>1, <2>2, <2>3
<1>7. ChatTypeOK'
  BY <1>1, <1>2, <1>3, <1>4, <1>5, <1>6
     DEF ChatHistory, ChatTasks, ChatRest, ChatTypeOK, ChatMessage, ChatTask, Task, Posts
<1>8. ConnectedInv'
  BY <1>2 DEF Inform, ChatInv, ConnectedInv, Asks
<1> QED BY <1>2, <1>3, <1>4, <1>7, <1>8 DEF ChatInv, ProgressEnds

LEMMA StepHandlePost ==
  ASSUME ChatInv, HandlePost
  PROVE  ChatInv'
<1>1. ChatHistory(history) /\ ChatTasks /\ ChatRest
  BY ChatTypeParts DEF ChatInv
<1>2. /\ mainLooper # <<>> /\ mainLooper' = Tail(mainLooper)
      /\ history' = <<>> \/ history' = history
      /\ inCommand' = (inCommand /\ ~output)
      /\ missed' = ~output
      /\ UNCHANGED <<notifications, asking, output, async, running, received, counts, front,
                     hasBinder, uiAsk>>
  BY DEF HandlePost
<1>3. ChatTasks' /\ CommandsInOrder' /\ TasksInOrder'
  BY <1>2, TasksUntouched
<1>4. mainLooper' \in Seq(Posts)
  BY <1>1, <1>2, TailPlaces DEF ChatRest
<1>5. ChatHistory(history')
  <2>1. <<>> \in Seq(ChatMessage) /\ DOMAIN <<>> = {}
    BY EmptySeq
  <2> QED BY <1>1, <1>2, <2>1 DEF ChatHistory
<1>6. ChatTypeOK'
  BY <1>1, <1>2, <1>3, <1>4, <1>5
     DEF ChatHistory, ChatTasks, ChatRest, ChatTypeOK, ChatMessage, ChatTask, Task, Posts
<1>7. ConnectedInv'
  BY <1>2 DEF ChatInv, ConnectedInv
<1>8. ProgressEnds'
  BY <1>1, <1>2 DEF ProgressEnds, ChatRest
<1> QED BY <1>3, <1>6, <1>7, <1>8 DEF ChatInv

(* The activity comes, leaves and is created again. *)
LEMMA StepActivity ==
  ASSUME ChatInv, OnResume \/ OnPause \/ Recreate
  PROVE  ChatInv'
<1>1. ChatHistory(history) /\ ChatTasks /\ ChatRest
  BY ChatTypeParts DEF ChatInv
<1>2. /\ UNCHANGED <<history, notifications, asking, mainLooper, async, running, received,
                     counts, missed>>
      /\ front' \in BOOLEAN /\ hasBinder' \in BOOLEAN
      /\ output' = output \/ output' = FALSE
      /\ uiAsk' = uiAsk \/ uiAsk' = "none"
      /\ inCommand' = inCommand \/ inCommand' = FALSE
  BY <1>1 DEF OnResume, OnPause, Recreate, engineVars, threadVars, ChatRest
<1>3. ChatTasks' /\ CommandsInOrder' /\ TasksInOrder'
  BY <1>2, TasksUntouched
<1>4. ChatTypeOK'
  BY <1>1, <1>2, <1>3
     DEF ChatHistory, ChatTasks, ChatRest, ChatTypeOK, ChatMessage, ChatTask, Task, Posts
<1>5. ConnectedInv'
  BY <1>1, <1>2 DEF ChatInv, ConnectedInv, ChatRest, OnResume, OnPause, Recreate,
                    engineVars
<1>6. ProgressEnds'
  <2>1. Pending' <=> Pending
    BY <1>2 DEF Pending
  <2> QED BY <1>1, <1>2, <2>1 DEF ChatInv, ProgressEnds, ChatRest
<1> QED BY <1>3, <1>4, <1>5, <1>6 DEF ChatInv

LEMMA StepConnect ==
  ASSUME ChatInv, Ready
  PROVE  ChatInv'
<1> DEFINE t == <<0, "ready">>
<1>1. ChatHistory(history) /\ ChatTasks /\ ChatRest
  BY ChatTypeParts DEF ChatInv
<1>2. /\ counts.ready < MaxReady
      /\ counts' = [counts EXCEPT !.ready = @ + 1]
      /\ hasBinder' = TRUE /\ output' = TRUE /\ notifications' = <<>>
      /\ uiAsk' = (IF asking # "none" THEN asking ELSE uiAsk)
      /\ async' = Append(async, t)
      /\ UNCHANGED <<history, asking, mainLooper, running, received, front, inCommand, missed>>
  BY DEF Ready, SetOutput
<1>3. /\ counts' \in [messages : 0 .. MaxMessages, commands : 0 .. MaxCommands,
                      ready : 0 .. MaxReady]
      /\ counts'.commands = counts.commands
  <2>1. counts.ready < MaxReady /\ counts' = [counts EXCEPT !.ready = @ + 1]
    BY <1>2
  <2>2. /\ counts \in [messages : 0 .. MaxMessages, commands : 0 .. MaxCommands,
                       ready : 0 .. MaxReady]
        /\ counts.ready \in 0 .. MaxReady /\ MaxReady \in Nat
    BY <1>1, AssistantAssumption DEF ChatRest
  <2>3. counts.ready + 1 \in 0 .. MaxReady
    BY <2>1, <2>2
  <2> QED BY <2>1, <2>2, <2>3
<1>4. t \in ChatTask /\ ~IsCommand(t)
  BY DEF ChatTask, IsCommand
<1> HIDE DEF t
<1>5. async' \in Seq(ChatTask) /\ TasksInOrder'
  BY <1>2, <1>3, <1>4, TaskGiven
<1>6. ChatTypeOK'
  BY <1>1, <1>2, <1>3, <1>5, EmptySeq
     DEF ChatHistory, ChatTasks, ChatRest, ChatTypeOK, ChatMessage, ChatTask, Task, Posts
<1>7. CommandsInOrder' /\ ConnectedInv'
  BY <1>2 DEF ChatInv, CommandsInOrder, ConnectedInv, Ready
<1>8. Pending => Pending'
  <2>1. /\ Len(async) \in Nat /\ DOMAIN async = 1 .. Len(async)
        /\ DOMAIN async' = 1 .. Len(async) + 1
        /\ \A i \in 1 .. Len(async) : async'[i] = async[i]
    <3>1. async \in Seq(ChatTask)
      BY <1>1 DEF ChatTasks
    <3> QED BY <1>2, <1>4, <3>1, AppendPlaces
  <2>2. \A i \in DOMAIN async : i \in DOMAIN async'
    BY <2>1
  <2> QED BY <1>2, <2>1, <2>2 DEF Pending
<1> QED BY <1>2, <1>5, <1>6, <1>7, <1>8 DEF ChatInv, ProgressEnds

LEMMA NextChatInv == ChatInv /\ [ChatNext]_chatVars => ChatInv'
<1> SUFFICES ASSUME ChatInv, [ChatNext]_chatVars PROVE ChatInv'
  OBVIOUS
<1>1. CASE UNCHANGED chatVars
  BY <1>1
     DEF chatVars, engineVars, threadVars, chatUIVars, ChatInv, ChatTypeOK, CommandsInOrder,
         TasksInOrder, ProgressEnds, Pending, ConnectedInv
<1> QED
  BY <1>1, StepCommand, StepRun, StepFinish, StepDispatch, StepHandleDispatched,
     StepHandlePost, StepActivity, StepConnect DEF ChatNext

(* However many messages and commands there are and however often the activity
   leaves: JavaScript receives the commands in the order the user gave them,
   and the progress bar stands only while a command is under way, unless one
   ended while the activity was away. *)
THEOREM ChatInvHolds == ChatSpec => []ChatInv
BY InitChatInv, NextChatInv, PTL DEF ChatSpec

(* While the activity is connected its input field is set up for what the
   engine asked for last, also when the question came while the activity was
   away or has been recreated. *)
THEOREM FieldIsRight == ChatSpec => []FieldMatchesQuestion
<1>1. ChatInit => FieldMatchesQuestion
  BY DEF ChatInit, FieldMatchesQuestion
<1>2. ChatInv /\ FieldMatchesQuestion /\ [ChatNext]_chatVars => FieldMatchesQuestion'
  <2> SUFFICES ASSUME ChatInv, FieldMatchesQuestion, [ChatNext]_chatVars
               PROVE  FieldMatchesQuestion'
    OBVIOUS
  <2>1. CASE UNCHANGED <<asking, output, uiAsk>>
    BY <2>1 DEF FieldMatchesQuestion
  <2>2. CASE HandleDispatched
    BY <2>2 DEF HandleDispatched, Inform, FieldMatchesQuestion
  <2>3. CASE Ready
    BY <2>3 DEF Ready, SetOutput, ChatInv, ConnectedInv, FieldMatchesQuestion
  <2>4. CASE OnPause
    BY <2>4 DEF OnPause, FieldMatchesQuestion
  <2>5. CASE Recreate
    <3>1. ~output
      BY <2>5 DEF Recreate, ChatInv, ConnectedInv
    <3> QED BY <2>5, <3>1 DEF Recreate, engineVars, FieldMatchesQuestion
  <2> QED
    BY <2>1, <2>2, <2>3, <2>4, <2>5
       DEF ChatNext, Command, Run, Finish, Dispatch, HandlePost, OnResume,
           engineVars, threadVars, chatUIVars, chatVars
<1> QED BY <1>1, <1>2, InitChatInv, NextChatInv, PTL DEF ChatSpec

(* Nothing that can be clicked stands right before what the user said, however
   commands and messages of the engine interleave. *)
THEOREM ButtonsAreGone == ChatSpec => []NoButtonsBeforeAnswer
<1>1. ChatInit => NoButtonsBeforeAnswer
  BY EmptySeq DEF ChatInit, NoButtonsBeforeAnswer
<1>2. ChatInv /\ NoButtonsBeforeAnswer /\ [ChatNext]_chatVars => NoButtonsBeforeAnswer'
  <2> SUFFICES ASSUME ChatInv, NoButtonsBeforeAnswer, [ChatNext]_chatVars
               PROVE  NoButtonsBeforeAnswer'
    OBVIOUS
  <2>1. Clean(history) /\ ChatHistory(history)
    BY ChatTypeParts DEF ChatInv, NoButtonsBeforeAnswer, Clean
  <2>2. CASE UNCHANGED history
    BY <2>2 DEF NoButtonsBeforeAnswer
  <2>3. Clean(history') => NoButtonsBeforeAnswer'
    BY DEF NoButtonsBeforeAnswer, Clean
  <2>4. ASSUME NEW kind \in Kinds, Command(kind) PROVE Clean(history')
    BY <2>1, <2>4, CommandLeaves DEF Command
  <2>5. CASE HandleDispatched
    <3>1. PICK m \in FromEngine : history' = Added(history, m)
      BY <2>5 DEF HandleDispatched
    <3>2. m \in ChatMessage /\ m # FromUser
      BY <3>1 DEF ChatMessage, FromEngine, Asks, FromUser
    <3>3. Clean(Added(history, m))
      BY <2>1, <3>2, MessageAdded
    <3> QED BY <2>3, <3>1, <3>3
  <2>6. CASE HandlePost
    <3>1. history' = <<>> \/ history' = history
      BY <2>6 DEF HandlePost
    <3>2. Clean(<<>>)
      <4>1. Len(<<>>) = 0 /\ 1 .. 0 - 1 = {}
        BY EmptySeq
      <4> QED BY <4>1 DEF Clean
    <3> QED BY <2>1, <2>3, <3>1, <3>2
  <2> QED
    BY <2>2, <2>3, <2>4, <2>5, <2>6
       DEF ChatNext, Run, Finish, Dispatch, OnResume, Ready, OnPause, Recreate,
           engineVars, threadVars, chatUIVars, chatVars
<1> QED BY <1>1, <1>2, InitChatInv, NextChatInv, PTL DEF ChatSpec

(* What arrives while the activity is away is kept for the notification until
   it is back, in its order, and nothing is kept that was shown in the chat. *)
THEOREM KeptWhileAway == ChatSpec => NotifiedWhileAway
<1> DEFINE Kept ==
              /\ output' => notifications' = <<>>
              /\ ~output /\ ~output' => IsPrefix(notifications, notifications')
              /\ ~output /\ Len(history') > Len(history) /\ Last(history') # FromUser
                   => notifications' = Append(notifications, Last(history'))
<1>1. ASSUME ChatInv, [ChatNext]_chatVars PROVE Kept
  <2>1. ChatHistory(history) /\ ChatRest /\ ConnectedInv
    BY <1>1, ChatTypeParts DEF ChatInv
  <2>2. history \in Seq(ChatMessage) /\ notifications \in Seq(FromEngine)
    BY <2>1 DEF ChatHistory, ChatRest
  <2>3. IsPrefix(notifications, notifications)
    BY <2>2, LenProperties DEF IsPrefix
  <2>4. ~(Len(history) > Len(history))
    BY <2>2, LenProperties
  <2>5. ASSUME UNCHANGED notifications, output' => output,
               history' = history \/ ~(Len(history') > Len(history))
                 \/ Last(history') = FromUser
        PROVE  Kept
    BY <2>1, <2>3, <2>4, <2>5 DEF ConnectedInv
  <2>6. ASSUME NEW kind \in Kinds, Command(kind) PROVE Kept
    <3>1. Len(history') > Len(history) => Last(history') = FromUser
      BY <2>1, <2>6, CommandLeaves DEF Command
    <3> QED BY <2>5, <2>6, <3>1 DEF Command
  <2>7. CASE HandleDispatched
    <3>1. PICK m \in FromEngine : m = Head(mainLooper) /\ history' = Added(history, m)
      BY <2>7 DEF HandleDispatched
    <3>2. Inform(m) /\ output' = output
      BY <2>7, <3>1 DEF HandleDispatched
    <3>3. CASE output \/ IsFiltered(m)
      <4>1. UNCHANGED notifications
        BY <3>2, <3>3 DEF Inform, ShouldNotify, IsFiltered
      <4>2. output \/ history' = history
        BY <3>1, <3>3 DEF Added
      <4> QED BY <2>1, <2>3, <2>4, <3>2, <4>1, <4>2 DEF ConnectedInv
    <3>4. CASE ~output /\ ~IsFiltered(m)
      <4>1. notifications' = Append(notifications, m)
        BY <3>2, <3>4 DEF Inform, ShouldNotify, IsFiltered
      <4>2. history' = Append(history, m) /\ m \in ChatMessage
        BY <3>1, <3>4 DEF Added, ChatMessage
      <4>3. Last(history') = m
        BY <2>2, <4>2, AppendPlaces DEF Last
      <4>4. IsPrefix(notifications, notifications')
        BY <2>2, <3>1, <4>1, AppendIsLonger
      <4> QED BY <3>2, <3>4, <4>1, <4>3, <4>4
    <3> QED BY <3>3, <3>4
  <2>8. CASE HandlePost
    <3>1. ~(Len(<<>>) > Len(history))
      BY <2>2, LenProperties, EmptySeq
    <3>2. history' = <<>> \/ history' = history
      BY <2>8 DEF HandlePost
    <3>3. UNCHANGED <<notifications, output>>
      BY <2>8 DEF HandlePost
    <3> QED BY <2>5, <3>1, <3>2, <3>3
  <2>9. CASE Ready
    <3>1. output' /\ notifications' = <<>> /\ history' = history
      BY <2>9 DEF Ready, SetOutput
    <3> QED BY <2>4, <3>1
  <2>10. CASE Run \/ Finish \/ (\E m \in FromEngine : Dispatch(m))
              \/ OnResume \/ OnPause \/ Recreate \/ UNCHANGED chatVars
    <3>1. UNCHANGED <<notifications, history>> /\ (output' => output)
      BY <2>10
         DEF Run, Finish, Dispatch, OnResume, OnPause, Recreate, engineVars, threadVars,
             chatUIVars, chatVars
    <3> QED BY <2>5, <3>1
  <2> HIDE DEF Kept
  <2> QED BY <1>1, <2>6, <2>7, <2>8, <2>9, <2>10 DEF ChatNext
<1> QED BY <1>1, InitChatInv, NextChatInv, PTL DEF ChatSpec, NotifiedWhileAway
=============================================================================
