------------------------ MODULE DisenchantQueueProofs ------------------------
(***************************************************************************)
(* What TLAPS proves of DisenchantQueue for any number of orders, pieces   *)
(* and faults.                                                             *)
(***************************************************************************)
EXTENDS DisenchantQueue, FiniteSetTheorems, TLAPS

Windows == [row : Rows \cup {NoRow}, source : Items \cup {NoItem},
            observed : BOOLEAN, before : 0..MaxDust]

(***************************************************************************)
(* The two queues of the store.                                            *)
(***************************************************************************)
LEMMA StatementTypes ==
    /\ [kind |-> "owned"] \in Statement /\ [kind |-> "pending"] \in Statement
    /\ \A r \in Rows : /\ [kind |-> "claim", row |-> r] \in Statement
                       /\ [kind |-> "complete", row |-> r] \in Statement
                       /\ [kind |-> "acknowledge", row |-> r] \in Statement
  BY DEF Statement

LEMMA StatementRow ==
    ASSUME NEW s \in Statement, s.kind \in {"claim", "complete", "acknowledge"}
    PROVE  s.row \in Rows
  BY DEF Statement

LEMMA AnswerFields ==
    ASSUME NEW a \in Answer
    PROVE  /\ a.kind = "failed" => a.of \in {"pending", "owned"}
           /\ a.kind \in {"pending", "owned"} => a.rows \subseteq Rows
           /\ a.kind = "acknowledge" => a.row \in Rows /\ a.over \in BOOLEAN
  BY DEF Answer

\* The worker answers a statement with at most one result.
LEMMA WorkerAnswers ==
    ASSUME TypeOK, NEW s \in Statement
    PROVE  /\ Written(s) \in [Rows -> Statuses]
           /\ Read(s) \in Seq(Answer)
           /\ Failed(s) \in Seq(Answer)
  <1>1. Written(s) \in [Rows -> Statuses]
    BY StatementRow DEF Written, TypeOK, Statuses
  <1>2. Read(s) \in Seq(Answer)
    <2>1. CASE s.kind = "pending"
      <3>1. [kind |-> "pending", rows |-> {r \in Rows : status[r] = "pending"}] \in Answer
        BY DEF Answer
      <3> QED  BY <2>1, <3>1 DEF Read
    <2>2. CASE s.kind = "owned"
      <3>1. [kind |-> "owned", rows |-> Claimed] \in Answer
        BY DEF Answer, Claimed
      <3> QED  BY <2>2, <3>1 DEF Read
    <2>3. CASE s.kind = "acknowledge"
      <3>1. [kind |-> "acknowledge", row |-> s.row, over |-> s.row \notin Claimed] \in Answer
        BY <2>3, StatementRow DEF Answer
      <3> QED  BY <2>3, <3>1 DEF Read
    <2>4. CASE s.kind \notin {"pending", "owned", "acknowledge"}
      BY <2>4 DEF Read
    <2> QED  BY <2>1, <2>2, <2>3, <2>4
  <1>3. Failed(s) \in Seq(Answer)
    <2>1. CASE s.kind \in {"pending", "owned"}
      <3>1. [kind |-> "failed", of |-> s.kind] \in Answer
        BY <2>1 DEF Answer
      <3> QED  BY <2>1, <3>1 DEF Failed
    <2>2. CASE s.kind = "acknowledge"
      <3>1. [kind |-> "acknowledge", row |-> s.row, over |-> FALSE] \in Answer
        BY <2>2, StatementRow DEF Answer
      <3> QED  BY <2>2, <3>1 DEF Failed
    <2>3. CASE s.kind \notin {"pending", "owned", "acknowledge"}
      BY <2>3 DEF Failed
    <2> QED  BY <2>1, <2>2, <2>3
  <1> QED  BY <1>1, <1>2, <1>3

LEMMA ConcatTypes ==
    /\ \A u, v \in Seq(Statement) : u \o v \in Seq(Statement)
    /\ \A u, v \in Seq(Answer) : u \o v \in Seq(Answer)
    /\ \A u \in Seq(Statement) : u # <<>> => Head(u) \in Statement /\ Tail(u) \in Seq(Statement)
    /\ \A u \in Seq(Answer) : u # <<>> => Head(u) \in Answer /\ Tail(u) \in Seq(Answer)
    /\ \A x \in Statement : <<x>> \in Seq(Statement)
    /\ \A u \in Seq(Statement), x \in Statement : Append(u, x) \in Seq(Statement)
    /\ \A x, y \in Statement : <<x, y>> \in Seq(Statement)
    /\ <<>> \in Seq(Statement) /\ <<>> \in Seq(Answer)
  OBVIOUS

(***************************************************************************)
(* The window of the character.                                            *)
(***************************************************************************)
LEMMA WindowFields ==
    ASSUME NEW w \in Windows
    PROVE  /\ w.row \in Rows \cup {NoRow} /\ w.source \in Items \cup {NoItem}
           /\ w.observed \in BOOLEAN /\ w.before \in 0..MaxDust
           /\ \A i \in Items : /\ [w EXCEPT !.source = i] \in Windows
                               /\ [w EXCEPT !.source = i].source = i
                               /\ [w EXCEPT !.source = i].row = w.row
                               /\ [w EXCEPT !.source = i].observed = w.observed
           /\ \A d \in 0..MaxDust :
                LET seen == [w EXCEPT !.observed = TRUE, !.before = d]
                IN  seen \in Windows /\ seen.row = w.row /\ seen.source = w.source /\ seen.observed
  BY DEF Windows

LEMMA NoWindowFields ==
    /\ NoWindow \in Windows /\ NoWindow.row = NoRow /\ NoWindow.source = NoItem
    /\ ~ NoWindow.observed
  BY DisenchantAssumption DEF NoWindow, Windows

LEMMA WindowOfType ==
    ASSUME TypeOK, NEW r \in Rows
    PROVE  /\ WindowOf(r) \in Windows /\ WindowOf(r).row = r
           /\ WindowOf(r).source # NoItem => WindowOf(r) = window
           /\ WindowOf(r).observed => WindowOf(r) = window
           /\ Forgotten(r) \in Windows
           /\ WindowOf(r).source \in Items \cup {NoItem}
  <1> DEFINE own == [NoWindow EXCEPT !.row = r]
  <1>1. window \in Windows
    BY DEF TypeOK, Windows
  <1>2. /\ own \in Windows /\ own.row = r /\ own.source = NoItem /\ ~ own.observed
        /\ NoWindow \in Windows
    <2>1. NoWindow \in Windows /\ NoWindow.source = NoItem /\ ~ NoWindow.observed
      BY NoWindowFields
    <2>2. \A w \in Windows : LET v == [w EXCEPT !.row = r]
                             IN  /\ v \in Windows /\ v.row = r /\ v.source = w.source
                                 /\ v.observed = w.observed
      BY DEF Windows
    <2> QED  BY <2>1, <2>2
  <1>3. (WindowOf(r) = window /\ window.row = r) \/ WindowOf(r) = own
    BY DEF WindowOf
  <1>4. Forgotten(r) \in Windows
    BY <1>1, <1>2 DEF Forgotten
  <1>5. WindowOf(r) \in Windows
    BY <1>1, <1>2, <1>3
  <1> HIDE DEF own
  <1> QED  BY <1>2, <1>3, <1>4, <1>5, WindowFields

LEMMA CollectType ==
    ASSUME TypeOK, NEW w \in Windows, NEW i \in Items, Collect(w, i)
    PROVE  /\ item' \in [Items -> Pieces] /\ dust' \in 0..MaxDust /\ window' \in Windows
           /\ window'.row = w.row /\ window'.source = w.source
           /\ \A j \in Items : j # i => item'[j] = item[j]
           /\ item[i] \in {"bag", "loot", "looted"} => item'[i] \in {"loot", "looted"}
  <1>1. dust \in 0..MaxDust /\ item \in [Items -> Pieces] /\ MaxDust \in Nat
    BY DisenchantAssumption DEF TypeOK
  <1>2. CollectedWindow(w, i) \in Windows
        /\ CollectedWindow(w, i).row = w.row /\ CollectedWindow(w, i).source = w.source
    BY <1>1, WindowFields DEF CollectedWindow
  <1>3. dust' \in 0..MaxDust
    BY <1>1 DEF Collect, Stores
  <1> QED  BY <1>1, <1>2, <1>3 DEF Collect, Pieces

LEMMA ReleasedType ==
    ASSUME TypeOK, NEW w \in Windows, w.source # NoItem, Released(w)
    PROVE  /\ item' \in [Items -> Pieces] /\ opened' \in Items \cup {NoItem}
           /\ \A j \in Items : j # w.source => item'[j] = item[j]
           /\ item'[w.source] = IF Owns(w.source) THEN "destroyed" ELSE item[w.source]
  BY WindowFields DEF Released, TypeOK, Pieces

LEMMA ClosedType ==
    ASSUME TypeOK
    PROVE  /\ Closed \in [Items -> Pieces]
           /\ \A i \in Items : Closed[i] = item[i] \/ (opened = i /\ Closed[i] = "destroyed")
           /\ opened # NoItem => Closed[opened] = "destroyed"
  BY DEF Closed, TypeOK, Pieces

LEMMA RetireType ==
    ASSUME TypeOK, NEW gone \in SUBSET Rows, Retire(gone)
    PROVE  /\ window' \in Windows /\ retired' \in Rows \cup {NoRow}
  BY NoWindowFields DEF Retire, TypeOK, Windows

(***************************************************************************)
(* Types.                                                                  *)
(***************************************************************************)
LEMMA TypeInit == Init => TypeOK
  <1> SUFFICES ASSUME Init PROVE TypeOK
    OBVIOUS
  <1>1. status \in [Rows -> Statuses] /\ item \in [Items -> Pieces]
    BY DEF Init, Statuses, Pieces
  <1>2. window \in Windows
    BY NoWindowFields DEF Init
  <1>3. /\ sql \in Seq(Statement) /\ answers \in Seq(Answer)
        /\ task \in [Rows -> {"none", "driving", "completing"}]
    BY ConcatTypes DEF Init
  <1>4. dust \in 0..MaxDust /\ faults \in 0..MaxFaults
    BY DisenchantAssumption DEF Init
  <1>5. /\ {ownedBusy, pendingBusy, claiming, room, alive, rivals} \subseteq BOOLEAN
        /\ completed \subseteq Rows /\ retired \in Rows \cup {NoRow} /\ kept \subseteq Items
        /\ {casting, opened} \subseteq Items \cup {NoItem}
    BY DEF Init
  <1> QED  BY <1>1, <1>2, <1>3, <1>4, <1>5 DEF TypeOK, Windows

LEMMA TypeNext == TypeOK /\ [Next]_vars => TypeOK'
  <1> SUFFICES ASSUME TypeOK, [Next]_vars PROVE TypeOK'
    OBVIOUS
  <1> USE DisenchantAssumption
  <1>w. window \in Windows
    BY DEF TypeOK, Windows
  <1>f. ASSUME Fault PROVE faults' \in 0..MaxFaults
    BY <1>f DEF Fault, TypeOK
  <1>1. CASE WorkerRuns
    <2>1. sql # <<>> /\ sql' = Tail(sql)
          /\ answers' \in {answers \o Read(Head(sql)), answers \o Failed(Head(sql))}
          /\ status' \in {status, Written(Head(sql))}
          /\ (Fault \/ faults' = faults)
          /\ UNCHANGED <<memory, window, game, rivals>>
      BY <1>1 DEF WorkerRuns
    <2>2. Head(sql) \in Statement /\ Tail(sql) \in Seq(Statement)
      BY <2>1, ConcatTypes DEF TypeOK
    <2>3. answers' \in Seq(Answer) /\ status' \in [Rows -> Statuses]
      <3>1. Read(Head(sql)) \in Seq(Answer) /\ Failed(Head(sql)) \in Seq(Answer)
            /\ Written(Head(sql)) \in [Rows -> Statuses]
        BY <2>2, WorkerAnswers
      <3>2. answers \in Seq(Answer) /\ status \in [Rows -> Statuses]
        BY DEF TypeOK
      <3> QED  BY <2>1, <3>1, <3>2, ConcatTypes
    <2> QED  BY <2>1, <2>2, <2>3, <1>f DEF TypeOK, memory, game
  <1>2. CASE ReadDisenchantCommands
    <2>1. sql' \in Seq(Statement)
      BY <1>2, StatementTypes, ConcatTypes DEF ReadDisenchantCommands, TypeOK
    <2> QED  BY <1>2, <2>1 DEF ReadDisenchantCommands, TypeOK, table, game
  <1>3. CASE ClaimingExpires
    BY <1>3, <1>f DEF ClaimingExpires, TypeOK, table, store, game
  <1>h. ASSUME NEW kind, Answers(kind)
        PROVE  Head(answers) \in Answer /\ Head(answers).kind = kind /\ answers' \in Seq(Answer)
    BY <1>h, ConcatTypes DEF Answers, TypeOK
  <1>4. CASE OwnedAnswered
    <2>1. Head(answers) \in Answer /\ Head(answers).kind = "owned" /\ answers' \in Seq(Answer)
      BY <1>4, <1>h DEF OwnedAnswered
    <2>2. Head(answers).rows \subseteq Rows
      BY <2>1, AnswerFields
    <2> DEFINE owned == Head(answers).rows \ completed
               gone == {r \in Rows : task[r] = "driving" /\ r \notin owned}
    <2>3. window' \in Windows /\ retired' \in Rows \cup {NoRow}
      BY <1>4, RetireType DEF OwnedAnswered
    <2>4. task' \in [Rows -> {"none", "driving", "completing"}]
      BY <1>4 DEF OwnedAnswered, TypeOK
    <2>5. claiming' \in BOOLEAN /\ rivals' \in BOOLEAN
      BY <1>4 DEF OwnedAnswered, TypeOK
    <2>6. /\ ownedBusy' = FALSE /\ completed' = {}
          /\ UNCHANGED <<table, sql, pendingBusy, game, faults>>
      BY <1>4 DEF OwnedAnswered
    <2> HIDE DEF owned, gone
    <2> QED  BY <2>1, <2>3, <2>4, <2>5, <2>6 DEF TypeOK, table, game, Windows
  <1>5. CASE PendingAnswered
    <2>1. Head(answers) \in Answer /\ Head(answers).kind = "pending" /\ answers' \in Seq(Answer)
      BY <1>5, <1>h DEF PendingAnswered
    <2>2. Head(answers).rows \subseteq Rows
      BY <2>1, AnswerFields
    <2>3. sql' \in Seq(Statement) /\ claiming' \in BOOLEAN
      <3>1. CASE UNCHANGED <<sql, claiming>>
        BY <3>1 DEF TypeOK
      <3>2. ASSUME NEW r \in Rows, sql' = Append(sql, [kind |-> "claim", row |-> r]), claiming' = TRUE
            PROVE  sql' \in Seq(Statement) /\ claiming' \in BOOLEAN
        BY <3>2, StatementTypes, ConcatTypes DEF TypeOK
      <3> QED  BY <1>5, <2>2, <3>1, <3>2 DEF PendingAnswered
    <2> QED  BY <1>5, <2>1, <2>3 DEF PendingAnswered, TypeOK, table, game
  <1>6. CASE ReadFailed
    <2>1. answers' \in Seq(Answer)
      BY <1>6, <1>h DEF ReadFailed
    <2> QED  BY <1>6, <2>1 DEF ReadFailed, TypeOK, table, game
  <1>7. CASE Acknowledged
    <2>1. Head(answers) \in Answer /\ Head(answers).kind = "acknowledge" /\ answers' \in Seq(Answer)
      BY <1>7, <1>h DEF Acknowledged
    <2>2. Head(answers).row \in Rows
      BY <2>1, AnswerFields
    <2>3. /\ window' \in Windows
          /\ task' \in [Rows -> {"none", "driving", "completing"}]
          /\ completed' \subseteq Rows
      <3> DEFINE r == Head(answers).row
      <3>1. UNCHANGED <<task, window, completed>> \/ Over(r) \/ NotOver(r)
        BY <1>7 DEF Acknowledged
      <3>2. r \in Rows
        BY <2>2
      <3> HIDE DEF r
      <3>3. CASE UNCHANGED <<task, window, completed>>
        BY <3>3, <1>w DEF TypeOK
      <3>4. CASE Over(r)
        BY <3>2, <3>4, WindowOfType DEF Over, TypeOK
      <3>5. CASE NotOver(r)
        BY <3>2, <3>5, <1>w DEF NotOver, TypeOK
      <3> QED  BY <3>1, <3>3, <3>4, <3>5
    <2> QED  BY <1>7, <2>1, <2>3 DEF Acknowledged, TypeOK, table, game, Windows
  <1>8. ASSUME NEW r \in Rows, Completes(r) PROVE TypeOK'
    <2>1. WindowOf(r).source # NoItem
      BY <1>8 DEF Completes, Finishes, ReadBack
    <2>2. item' \in [Items -> Pieces] /\ opened' \in Items \cup {NoItem}
      BY <1>8, <2>1, WindowOfType, ReleasedType DEF Completes
    <2>3. sql' \in Seq(Statement)
      <3>1. <<[kind |-> "complete", row |-> r], [kind |-> "acknowledge", row |-> r]>> \in Seq(Statement)
        BY StatementTypes, ConcatTypes
      <3> QED  BY <1>8, <3>1, ConcatTypes DEF Completes, TypeOK
    <2>4. task' \in [Rows -> {"none", "driving", "completing"}]
      BY <1>8 DEF Completes, TypeOK
    <2> QED  BY <1>8, <2>2, <2>3, <2>4 DEF Completes, Released, TypeOK, table
  <1>9. ASSUME NEW r \in Rows, TakesLoot(r) PROVE TypeOK'
    <2>1. WindowOf(r) \in Windows /\ WindowOf(r).source \in Items
      BY <1>9, WindowOfType DEF TakesLoot, HasLoot
    <2>2. item' \in [Items -> Pieces] /\ dust' \in 0..MaxDust /\ window' \in Windows
      BY <1>9, <2>1, CollectType DEF TakesLoot
    <2> QED  BY <1>9, <2>2 DEF TakesLoot, TypeOK, table, store, memory, Windows
  <1>10. ASSUME NEW r \in Rows, Casts(r) PROVE TypeOK'
    <2>1. PICK i \in Items : window' = [WindowOf(r) EXCEPT !.source = i] /\ casting' \in {i, NoItem}
      BY <1>10 DEF Casts
    <2>2. window' \in Windows
      BY <2>1, WindowOfType, WindowFields
    <2> QED  BY <1>10, <2>1, <2>2 DEF Casts, TypeOK, table, store, memory, Windows
  <1>11. CASE DriveRetiredDisenchant
    <2> DEFINE w == WindowOf(retired)
    <2>1. retired \in Rows /\ w \in Windows /\ Forgotten(retired) \in Windows
      BY <1>11, WindowOfType DEF DriveRetiredDisenchant, TypeOK
    <2>2. UNCHANGED <<table, store, ownedBusy, pendingBusy, claiming, task, completed, faults, rivals>>
      BY <1>11 DEF DriveRetiredDisenchant
    <2>3. CASE Finishes(w) /\ Released(w) /\ window' = Forgotten(retired) /\ retired' = NoRow
      <3>1. w.source # NoItem
        BY <2>3 DEF Finishes, ReadBack
      <3>2. item' \in [Items -> Pieces] /\ opened' \in Items \cup {NoItem}
        BY <2>1, <2>3, <3>1, ReleasedType
      <3>3. UNCHANGED <<kept, casting, dust, room, alive>>
        BY <2>3 DEF Released
      <3> HIDE DEF w
      <3> QED  BY <2>1, <2>2, <2>3, <3>2, <3>3 DEF TypeOK, table, store, Windows
    <2>4. CASE HasLoot(w.source) /\ Collect(w, w.source)
               /\ UNCHANGED <<kept, casting, opened, room, alive, retired>>
      <3>1. w.source \in Items
        BY <2>1, <2>4, WindowFields DEF HasLoot
      <3>2. item' \in [Items -> Pieces] /\ dust' \in 0..MaxDust /\ window' \in Windows
        BY <2>1, <2>4, <3>1, CollectType
      <3> HIDE DEF w
      <3> QED  BY <2>1, <2>2, <2>4, <3>2 DEF TypeOK, table, store, Windows
    <2>5. CASE window' = Forgotten(retired) /\ retired' = NoRow /\ UNCHANGED game
      BY <2>1, <2>2, <2>5 DEF TypeOK, table, store, game, Windows
    <2> QED  BY <1>11, <2>3, <2>4, <2>5 DEF DriveRetiredDisenchant
  <1>12. CASE CastEnds
    <2>1. casting \in Items
      BY <1>12 DEF CastEnds, TypeOK
    <2>2. /\ item' \in [Items -> Pieces] /\ dust' \in 0..MaxDust /\ window' \in Windows
          /\ opened' \in Items \cup {NoItem}
      <3>1. CASE Collect(window, casting) /\ opened' = casting
        BY <3>1, <2>1, <1>w, CollectType
      <3>2. CASE /\ item' = [item EXCEPT ![casting] = IF @ = "bag" THEN "loot" ELSE @]
                 /\ UNCHANGED <<dust, window>> /\ opened' = casting
        BY <3>2, <2>1, <1>w DEF TypeOK, Pieces
      <3>3. CASE UNCHANGED <<opened, item, dust, window>>
        BY <3>3, <1>w DEF TypeOK
      <3> QED  BY <1>12, <3>1, <3>2, <3>3 DEF CastEnds
    <2> QED  BY <1>12, <2>2 DEF CastEnds, TypeOK, table, store, memory, Windows
  <1>13. CASE WindowCloses
    BY <1>13, ClosedType DEF WindowCloses, TypeOK, table, store, memory
  <1>14. CASE BagsChange
    <2>1. item' \in [Items -> Pieces] /\ dust' \in 0..MaxDust /\ room' \in BOOLEAN /\ kept' \subseteq Items
      <3>1. CASE dust' \in {d \in 0..MaxDust : d = dust + 1 \/ d + 1 = dust} /\ UNCHANGED <<item, room, kept>>
        BY <3>1 DEF TypeOK
      <3>2. CASE room' = ~ room /\ UNCHANGED <<item, dust, kept>>
        BY <3>2 DEF TypeOK
      <3>3. ASSUME NEW i \in Items, kept' = IF i \in kept THEN kept \ {i} ELSE kept \cup {i},
                   UNCHANGED <<item, dust, room>>
            PROVE  kept' \subseteq Items /\ UNCHANGED <<item, dust, room>>
        BY <3>3 DEF TypeOK
      <3>4. ASSUME NEW i \in Items, item' = [item EXCEPT ![i] = "away"]
            PROVE  item' \in [Items -> Pieces]
        BY <3>4 DEF TypeOK, Pieces
      <3> QED  BY <1>14, <3>1, <3>2, <3>3, <3>4 DEF BagsChange, TypeOK
    <2> QED  BY <1>14, <2>1, <1>f DEF BagsChange, TypeOK, table, store, memory
  <1>15. CASE LogsOut
    BY <1>15, <1>f, ClosedType DEF LogsOut, TypeOK, table, store, memory
  <1>16. CASE LogsIn
    BY <1>16 DEF LogsIn, TypeOK, table, store, memory
  <1>17. CASE RowArrives
    <2>1. status' \in [Rows -> Statuses]
      BY <1>17 DEF RowArrives, TypeOK, Statuses
    <2> QED  BY <1>17, <2>1 DEF RowArrives, TypeOK, store, memory, game
  <1>18. CASE RowEnds
    <2>1. status' \in [Rows -> Statuses]
      BY <1>18 DEF RowEnds, TypeOK, Statuses
    <2> QED  BY <1>18, <2>1, <1>f DEF RowEnds, TypeOK, store, memory, game
  <1>19. CASE AbandonedEnds
    <2>1. status' \in [Rows -> Statuses]
      BY <1>19 DEF AbandonedEnds, TypeOK, Statuses
    <2> QED  BY <1>19, <2>1 DEF AbandonedEnds, TypeOK, store, memory, game
  <1>20. CASE Restart
    <2>1. status' \in [Rows -> Statuses] /\ item' \in [Items -> Pieces]
      BY <1>20 DEF Restart, TypeOK, Statuses, Pieces
    <2>2. window' \in Windows
      BY <1>20, NoWindowFields DEF Restart
    <2> QED  BY <1>20, <2>1, <2>2, <1>f, ConcatTypes DEF Restart, TypeOK, Windows
  <1>21. CASE UNCHANGED vars
    BY <1>21 DEF vars, table, store, memory, game, TypeOK
  <1> QED
    BY <1>1, <1>2, <1>3, <1>4, <1>5, <1>6, <1>7, <1>8, <1>9, <1>10, <1>11, <1>12, <1>13,
       <1>14, <1>15, <1>16, <1>17, <1>18, <1>19, <1>20, <1>21 DEF Next

(* Every state of a disenchant run has its types: claims, statements on      *)
(* their way, open windows and proofs name rows and pieces that exist, and   *)
(* the reagents stay within the bags (16671-17090).                          *)
THEOREM DisenchantTypes == Spec => []TypeOK
  BY TypeInit, TypeNext, PTL DEF Spec
(***************************************************************************)
(* Proofs that nobody finishes.                                            *)
(***************************************************************************)

\* The window names a row of its own as soon as it has a source.
ProofHasRow == window.source # NoItem => window.row \in Rows

LEMMA OrphanInit == Init => ProofHasRow /\ NoProofIsOrphaned
  BY NoWindowFields DEF Init, ProofHasRow, NoProofIsOrphaned

LEMMA OrphanNext ==
    ASSUME TypeOK, ProofHasRow, NoProofIsOrphaned, [Next]_vars
    PROVE  ProofHasRow' /\ NoProofIsOrphaned'
  <1> USE DisenchantAssumption
  <1>w. window \in Windows
    BY DEF TypeOK, Windows
  <1>s. ASSUME UNCHANGED <<window, task, retired>> PROVE ProofHasRow' /\ NoProofIsOrphaned'
    BY <1>s DEF ProofHasRow, NoProofIsOrphaned
  <1>n. ASSUME window' = NoWindow PROVE ProofHasRow' /\ NoProofIsOrphaned'
    BY <1>n, NoWindowFields DEF ProofHasRow, NoProofIsOrphaned
  <1>1. CASE WorkerRuns
    BY <1>1, <1>s DEF WorkerRuns, memory
  <1>2. CASE ReadDisenchantCommands
    BY <1>2, <1>s DEF ReadDisenchantCommands
  <1>3. CASE ClaimingExpires
    BY <1>3, <1>s DEF ClaimingExpires
  <1>4. CASE OwnedAnswered
    <2> DEFINE owned == Head(answers).rows \ completed
               gone == {r \in Rows : task[r] = "driving" /\ r \notin owned}
    <2>1. /\ Retire(gone)
          /\ task' = [r \in Rows |-> IF r \in gone THEN "none"
                                     ELSE IF r \in owned /\ task[r] = "none" THEN "driving"
                                     ELSE task[r]]
      BY <1>4 DEF OwnedAnswered
    <2> HIDE DEF owned, gone
    <2>2. CASE window.row \in gone /\ window.source # NoItem
      BY <2>1, <2>2 DEF Retire, ProofHasRow, NoProofIsOrphaned
    <2>3. CASE window.row \notin gone /\ window.source # NoItem
      BY <2>1, <2>3 DEF Retire, ProofHasRow, NoProofIsOrphaned
    <2>4. CASE window.source = NoItem
      BY <2>1, <2>4, NoWindowFields DEF Retire, ProofHasRow, NoProofIsOrphaned
    <2> QED  BY <2>2, <2>3, <2>4
  <1>5. CASE PendingAnswered
    BY <1>5, <1>s DEF PendingAnswered
  <1>6. CASE ReadFailed
    BY <1>6, <1>s DEF ReadFailed
  <1>7. CASE Acknowledged
    <2> DEFINE r == Head(answers).row
    <2>1. UNCHANGED <<task, window, completed>> \/ Over(r) \/ NotOver(r)
      BY <1>7 DEF Acknowledged
    <2>2. retired' = retired
      BY <1>7 DEF Acknowledged
    <2> HIDE DEF r
    <2>3. CASE Over(r)
      <3>1. CASE window.row = r
        BY <2>3, <3>1, <1>n DEF Over, Forgotten
      <3>2. CASE window.row # r
        BY <2>2, <2>3, <3>2 DEF Over, Forgotten, ProofHasRow, NoProofIsOrphaned, TypeOK
      <3> QED  BY <3>1, <3>2
    <2>4. CASE NotOver(r)
      BY <2>2, <2>4 DEF NotOver, ProofHasRow, NoProofIsOrphaned, TypeOK
    <2> QED  BY <2>1, <2>2, <2>3, <2>4, <1>s
  <1>8. ASSUME NEW r \in Rows, Completes(r) PROVE ProofHasRow' /\ NoProofIsOrphaned'
    BY <1>8 DEF Completes, ProofHasRow, NoProofIsOrphaned, TypeOK
  <1>9. ASSUME NEW r \in Rows, TakesLoot(r) PROVE ProofHasRow' /\ NoProofIsOrphaned'
    <2>1. WindowOf(r) \in Windows /\ WindowOf(r).row = r /\ WindowOf(r).source \in Items
      BY <1>9, WindowOfType DEF TakesLoot, HasLoot
    <2>2. window'.row = r
      BY <1>9, <2>1, CollectType DEF TakesLoot
    <2> QED  BY <1>9, <2>2 DEF TakesLoot, memory, Driven, ProofHasRow, NoProofIsOrphaned
  <1>10. ASSUME NEW r \in Rows, Casts(r) PROVE ProofHasRow' /\ NoProofIsOrphaned'
    <2>1. PICK i \in Items : window' = [WindowOf(r) EXCEPT !.source = i]
      BY <1>10 DEF Casts
    <2>2. window'.row = r
      <3>1. WindowOf(r) \in Windows /\ WindowOf(r).row = r
        BY WindowOfType
      <3> QED  BY <2>1, <3>1, WindowFields
    <2> QED  BY <1>10, <2>2 DEF Casts, memory, Driven, ProofHasRow, NoProofIsOrphaned
  <1>11. CASE DriveRetiredDisenchant
    <2> DEFINE w == WindowOf(retired)
    <2>1. retired \in Rows /\ w \in Windows /\ w.row = retired
      BY <1>11, WindowOfType DEF DriveRetiredDisenchant, TypeOK
    <2>2. UNCHANGED task
      BY <1>11 DEF DriveRetiredDisenchant
    <2>3. CASE window' = Forgotten(retired) /\ retired' = NoRow
      <3>1. CASE window.row = retired
        BY <2>3, <3>1, <1>n DEF Forgotten
      <3>2. CASE window.row # retired
        BY <2>2, <2>3, <3>2 DEF Forgotten, ProofHasRow, NoProofIsOrphaned
      <3> QED  BY <3>1, <3>2
    <2>4. CASE HasLoot(w.source) /\ Collect(w, w.source) /\ retired' = retired
      <3>1. w.source \in Items
        BY <2>1, <2>4, WindowFields DEF HasLoot
      <3>2. window'.row = retired
        BY <2>1, <2>4, <3>1, CollectType
      <3> HIDE DEF w
      <3> QED  BY <2>1, <2>4, <3>2 DEF ProofHasRow, NoProofIsOrphaned
    <2> QED  BY <1>11, <2>3, <2>4 DEF DriveRetiredDisenchant
  <1>12. CASE CastEnds
    <2>1. casting \in Items /\ UNCHANGED <<task, retired>>
      BY <1>12 DEF CastEnds, TypeOK, memory
    <2>2. CASE Collect(window, casting)
      <3>1. window'.row = window.row /\ window'.source = window.source
        BY <2>1, <2>2, <1>w, CollectType
      <3> QED  BY <2>1, <3>1 DEF ProofHasRow, NoProofIsOrphaned
    <2> QED  BY <1>12, <2>1, <2>2, <1>s DEF CastEnds
  <1>13. CASE WindowCloses
    BY <1>13, <1>s DEF WindowCloses, memory
  <1>14. CASE BagsChange
    BY <1>14, <1>s DEF BagsChange, memory
  <1>15. CASE LogsOut
    BY <1>15, <1>s DEF LogsOut, memory
  <1>16. CASE LogsIn
    BY <1>16, <1>s DEF LogsIn, memory
  <1>17. CASE RowArrives
    BY <1>17, <1>s DEF RowArrives, memory
  <1>18. CASE RowEnds
    BY <1>18, <1>s DEF RowEnds, memory
  <1>19. CASE AbandonedEnds
    BY <1>19, <1>s DEF AbandonedEnds, memory
  <1>20. CASE Restart
    BY <1>20, <1>n DEF Restart
  <1>21. CASE UNCHANGED vars
    BY <1>21, <1>s DEF vars, memory
  <1> QED
    BY <1>1, <1>2, <1>3, <1>4, <1>5, <1>6, <1>7, <1>8, <1>9, <1>10, <1>11, <1>12, <1>13,
       <1>14, <1>15, <1>16, <1>17, <1>18, <1>19, <1>20, <1>21 DEF Next

(* The proof of a piece that was picked is never left without a task or a    *)
(* retired order to finish it, whatever is cancelled, answered late or       *)
(* restarted: nothing else would ever clear it, and the character would not  *)
(* craft again until the server restarts (17562, HasDisenchantProof).        *)
THEOREM ProofsAreFinished == Spec => []NoProofIsOrphaned
  <1>1. Init => TypeOK /\ ProofHasRow /\ NoProofIsOrphaned
    BY TypeInit, OrphanInit
  <1>2. TypeOK /\ ProofHasRow /\ NoProofIsOrphaned /\ [Next]_vars
          => (TypeOK /\ ProofHasRow /\ NoProofIsOrphaned)'
    BY TypeNext, OrphanNext
  <1> QED  BY <1>1, <1>2, PTL DEF Spec

(***************************************************************************)
(* Answers and the pieces they answer for.                                 *)
(***************************************************************************)

\* A proof that has seen a loot window is about a piece whose loot was opened.
ObservedIsOpen ==
    window.observed => /\ window.source # NoItem
                       /\ item[window.source] \in {"loot", "looted", "destroyed"}

LEMMA ObservedNext ==
    ASSUME TypeOK, ObservedIsOpen, [Next]_vars
    PROVE  ObservedIsOpen'
  <1> USE DisenchantAssumption
  <1>w. window \in Windows /\ item \in [Items -> Pieces]
    BY DEF TypeOK, Windows
  <1>s. ASSUME UNCHANGED window,
               \A i \in Items : item[i] \in {"loot", "looted", "destroyed"}
                                  => item'[i] \in {"loot", "looted", "destroyed"}
        PROVE  ObservedIsOpen'
    BY <1>s, <1>w, WindowFields DEF ObservedIsOpen
  <1>u. ASSUME UNCHANGED <<window, item>> PROVE ObservedIsOpen'
    BY <1>u DEF ObservedIsOpen
  <1>n. ASSUME window' = NoWindow PROVE ObservedIsOpen'
    BY <1>n, NoWindowFields DEF ObservedIsOpen
  <1>c. ASSUME NEW w \in Windows, NEW i \in Items, w.source = i, Collect(w, i),
               item[i] \in {"bag", "loot", "looted"}
        PROVE  ObservedIsOpen'
    BY <1>c, CollectType DEF ObservedIsOpen
  <1>1. CASE \/ WorkerRuns \/ ReadDisenchantCommands \/ ClaimingExpires
             \/ PendingAnswered \/ ReadFailed \/ LogsIn \/ RowArrives \/ RowEnds \/ AbandonedEnds
    BY <1>1, <1>u DEF WorkerRuns, ReadDisenchantCommands, ClaimingExpires, PendingAnswered,
       ReadFailed, LogsIn, RowArrives, RowEnds, AbandonedEnds, game
  <1>4. CASE OwnedAnswered
    <2>1. UNCHANGED item /\ (UNCHANGED window \/ window' = NoWindow)
      BY <1>4 DEF OwnedAnswered, Retire, game
    <2> QED  BY <2>1, <1>u, <1>n
  <1>7. CASE Acknowledged
    <2>1. UNCHANGED item /\ (UNCHANGED window \/ window' = NoWindow)
      BY <1>7 DEF Acknowledged, Over, NotOver, Forgotten, game
    <2> QED  BY <2>1, <1>u, <1>n
  <1>r. ASSUME NEW r \in Rows, Released(WindowOf(r)), WindowOf(r).source # NoItem
        PROVE  \A i \in Items : item[i] \in {"loot", "looted", "destroyed"}
                                  => item'[i] \in {"loot", "looted", "destroyed"}
    BY <1>r, WindowOfType, ReleasedType
  <1>8. ASSUME NEW r \in Rows, Completes(r) PROVE ObservedIsOpen'
    BY <1>8, <1>r, <1>s DEF Completes, Finishes, ReadBack
  <1>9. ASSUME NEW r \in Rows, TakesLoot(r) PROVE ObservedIsOpen'
    <2>1. /\ WindowOf(r) \in Windows /\ WindowOf(r).source \in Items
          /\ item[WindowOf(r).source] \in {"loot", "looted"}
      BY <1>9, WindowOfType DEF TakesLoot, HasLoot
    <2> QED  BY <1>9, <2>1, <1>c DEF TakesLoot
  <1>10. ASSUME NEW r \in Rows, Casts(r) PROVE ObservedIsOpen'
    <2>1. PICK i \in Items : /\ window' = [WindowOf(r) EXCEPT !.source = i]
                             /\ WindowOf(r).source = NoItem \/ i = WindowOf(r).source
      BY <1>10 DEF Casts
    <2>2. /\ WindowOf(r) \in Windows
          /\ WindowOf(r).source # NoItem => WindowOf(r) = window
          /\ WindowOf(r).observed => WindowOf(r) = window
      BY WindowOfType
    <2>3. window'.source = i /\ window'.observed = WindowOf(r).observed
      <3> DEFINE w == WindowOf(r)
      <3>1. w \in Windows /\ window' = [w EXCEPT !.source = i]
        BY <2>1, <2>2
      <3> HIDE DEF w
      <3>2. window'.source = i /\ window'.observed = w.observed
        BY <3>1, WindowFields
      <3> QED  BY <3>2 DEF w
    <2>4. UNCHANGED item
      BY <1>10 DEF Casts
    <2> QED  BY <2>1, <2>2, <2>3, <2>4 DEF ObservedIsOpen
  <1>11. CASE DriveRetiredDisenchant
    <2> DEFINE w == WindowOf(retired)
    <2>1. retired \in Rows /\ w \in Windows
      BY <1>11, WindowOfType DEF DriveRetiredDisenchant, TypeOK
    <2>3. CASE Finishes(w) /\ Released(w) /\ window' = Forgotten(retired)
      <3>1. w.source # NoItem
        BY <2>3 DEF Finishes, ReadBack
      <3> QED  BY <2>1, <2>3, <3>1, <1>r, <1>s, <1>n DEF Forgotten
    <2>4. CASE HasLoot(w.source) /\ Collect(w, w.source)
      <3>1. w.source \in Items /\ item[w.source] \in {"loot", "looted"}
        BY <2>1, <2>4, WindowFields DEF HasLoot
      <3> HIDE DEF w
      <3> QED  BY <2>1, <2>4, <3>1, <1>c
    <2>5. CASE window' = Forgotten(retired) /\ UNCHANGED game
      BY <2>5, <1>u, <1>n DEF Forgotten, game
    <2> QED  BY <1>11, <2>3, <2>4, <2>5 DEF DriveRetiredDisenchant
  <1>12. CASE CastEnds
    <2>1. casting \in Items
      BY <1>12 DEF CastEnds, TypeOK
    <2>2. CASE Collect(window, casting) /\ window.source = casting /\ Owns(casting)
      BY <2>1, <2>2, <1>w, <1>c DEF Owns
    <2>3. CASE /\ item' = [item EXCEPT ![casting] = IF @ = "bag" THEN "loot" ELSE @]
               /\ UNCHANGED window
      <3>1. \A i \in Items : item[i] \in {"loot", "looted", "destroyed"}
                               => item'[i] \in {"loot", "looted", "destroyed"}
        BY <2>1, <2>3, <1>w
      <3> QED  BY <2>3, <3>1, <1>s
    <2> QED  BY <1>12, <2>2, <2>3, <1>u DEF CastEnds
  <1>13. CASE WindowCloses
    BY <1>13, <1>s, ClosedType DEF WindowCloses
  <1>14. CASE BagsChange
    <2>1. \A i \in Items : item[i] \in {"loot", "looted", "destroyed"} => item'[i] = item[i]
      BY <1>14, <1>w DEF BagsChange
    <2> QED  BY <1>14, <2>1, <1>s DEF BagsChange
  <1>15. CASE LogsOut
    BY <1>15, <1>s, ClosedType DEF LogsOut
  <1>20. CASE Restart
    BY <1>20, <1>n DEF Restart
  <1>21. CASE UNCHANGED vars
    BY <1>21, <1>u DEF vars, game
  <1> QED
    BY <1>1, <1>4, <1>7, <1>8, <1>9, <1>10, <1>11, <1>12, <1>13, <1>14, <1>15, <1>20, <1>21
       DEF Next

\* Rows answered as delivered, and rows about to be.
Asked(r) == \E k \in DOMAIN sql : sql[k].kind = "complete" /\ sql[k].row = r
Completing == {r \in Rows : status[r] = "delivered" \/ Asked(r)}

\* Each of them has a destroyed piece of its own, and the piece of the open
\* proof belongs to no row but that of the proof.
Pays(f) ==
    /\ f \in [Completing -> Destroyed]
    /\ \A r, q \in Completing : f[r] = f[q] => r = q
    /\ \A r \in Completing : f[r] = window.source => r = window.row
Earned == \E f \in [Completing -> Destroyed] : Pays(f)

LEMMA EarnedKept ==
    ASSUME Earned, Completing' \subseteq Completing, Destroyed \subseteq Destroyed',
           \/ window'.source \notin Destroyed
           \/ window'.source = window.source /\ window'.row = window.row
    PROVE  Earned'
  <1>1. PICK f \in [Completing -> Destroyed] : Pays(f)
    BY DEF Earned
  <1> DEFINE g == [r \in Completing' |-> f[r]]
  <1>2. g \in [Completing' -> Destroyed'] /\ \A r \in Completing' : g[r] = f[r] /\ g[r] \in Destroyed
    OBVIOUS
  <1> HIDE DEF g
  <1>3. \A r, q \in Completing' : g[r] = g[q] => r = q
    BY <1>1, <1>2 DEF Pays
  <1>4. \A r \in Completing' : g[r] = window'.source => r = window'.row
    BY <1>1, <1>2 DEF Pays
  <1> QED  BY <1>2, <1>3, <1>4 DEF Earned, Pays

LEMMA StatementBehind ==
    ASSUME NEW u \in Seq(Statement), NEW v \in Seq(Statement)
    PROVE  /\ u \o v \in Seq(Statement)
           /\ \A k \in DOMAIN u : k \in DOMAIN (u \o v) /\ (u \o v)[k] = u[k]
           /\ \A j \in DOMAIN v : /\ Len(u) + j \in DOMAIN (u \o v)
                                  /\ (u \o v)[Len(u) + j] = v[j]
           /\ \A k \in DOMAIN (u \o v) :
                \/ k \in DOMAIN u /\ (u \o v)[k] = u[k]
                \/ \E j \in DOMAIN v : k = Len(u) + j /\ (u \o v)[k] = v[j]
  <1>1. \A k \in DOMAIN (u \o v) : k \in DOMAIN u \/ k - Len(u) \in DOMAIN v
    OBVIOUS
  <1> QED  BY <1>1

LEMMA StatementRun ==
    ASSUME NEW u \in Seq(Statement), u # <<>>
    PROVE  /\ \A k \in DOMAIN Tail(u) : k + 1 \in DOMAIN u /\ Tail(u)[k] = u[k + 1]
           /\ \A k \in DOMAIN u : k # 1 => k - 1 \in DOMAIN Tail(u) /\ Tail(u)[k - 1] = u[k]
           /\ 1 \in DOMAIN u /\ Head(u) = u[1]
  OBVIOUS

\* Statements that answer nothing leave the same rows to be answered.
LEMMA AskedKept ==
    ASSUME TypeOK, NEW v \in Seq(Statement), sql' = sql \o v, UNCHANGED status,
           \A k \in DOMAIN v : v[k].kind # "complete"
    PROVE  Completing' = Completing
  <1>1. sql \in Seq(Statement)
    BY DEF TypeOK
  <1>2. \A r : Asked(r) <=> Asked(r)'
    BY <1>1, StatementBehind DEF Asked
  <1> QED  BY <1>2 DEF Completing

LEMMA AskedRun ==
    ASSUME TypeOK, WorkerRuns
    PROVE  Completing' \subseteq Completing
  <1>1. sql \in Seq(Statement) /\ sql # <<>> /\ sql' = Tail(sql) /\ Head(sql) \in Statement
    BY ConcatTypes DEF TypeOK, WorkerRuns
  <1>2. \A r : Asked(r)' => Asked(r)
    BY <1>1, StatementRun DEF Asked
  <1>3. \A r \in Rows : status'[r] = "delivered" => status[r] = "delivered" \/ Asked(r)
    <2> SUFFICES ASSUME NEW r \in Rows, status'[r] = "delivered", status[r] # "delivered"
                 PROVE  Asked(r)
      OBVIOUS
    <2>1. status' = Written(Head(sql)) /\ Head(sql).kind = "complete" /\ Head(sql).row = r
      BY <1>1, StatementRow DEF WorkerRuns, Written, TypeOK
    <2> QED  BY <1>1, <2>1, StatementRun DEF Asked
  <1> QED  BY <1>2, <1>3 DEF Completing

\* Two statements answer the row; its piece goes with them.
LEMMA EarnedCompletes ==
    ASSUME TypeOK, ObservedIsOpen, Earned, NEW r \in Rows, Completes(r)
    PROVE  Earned'
  <1>1. WindowOf(r).source # NoItem /\ WindowOf(r).observed
    BY DEF Completes, Finishes, ReadBack
  <1>2. WindowOf(r) = window /\ window.row = r /\ window.source \in Items
    BY <1>1, WindowOfType
  <1>3. UNCHANGED <<window, status>> /\ Released(window)
    BY <1>2 DEF Completes, table
  <1>4. window \in Windows
    BY DEF TypeOK, Windows
  <1>5. /\ \A j \in Items : j # window.source => item'[j] = item[j]
        /\ item'[window.source] = IF Owns(window.source) THEN "destroyed" ELSE item[window.source]
    BY <1>1, <1>2, <1>3, <1>4, ReleasedType
  <1>6. item[window.source] \in {"loot", "looted", "destroyed"}
    BY <1>1, <1>2 DEF ObservedIsOpen
  <1>7. Destroyed' = Destroyed \cup {window.source}
    BY <1>1, <1>2, <1>5, <1>6 DEF Destroyed, Owns
  <1>8. Completing' = Completing \cup {r}
    <2> DEFINE v == <<[kind |-> "complete", row |-> r], [kind |-> "acknowledge", row |-> r]>>
    <2>1. v \in Seq(Statement) /\ sql \in Seq(Statement) /\ sql' = sql \o v
      BY StatementTypes, ConcatTypes DEF TypeOK, Completes
    <2>2. /\ 1 \in DOMAIN v /\ v[1].kind = "complete" /\ v[1].row = r
          /\ \A k \in DOMAIN v : v[k].row = r
      OBVIOUS
    <2> HIDE DEF v
    <2>3. Asked(r)'
      <3>1. Len(sql) + 1 \in DOMAIN sql' /\ sql'[Len(sql) + 1] = v[1]
        BY <2>1, <2>2, StatementBehind
      <3> QED  BY <2>2, <3>1 DEF Asked
    <2>4. \A q \in Rows : q # r => (Asked(q)' <=> Asked(q))
      <3> SUFFICES ASSUME NEW q \in Rows, q # r PROVE Asked(q)' <=> Asked(q)
        OBVIOUS
      <3>1. \A k \in DOMAIN sql' : \/ k \in DOMAIN sql /\ sql'[k] = sql[k]
                                   \/ sql'[k].row = r
        BY <2>1, <2>2, StatementBehind
      <3>2. \A k \in DOMAIN sql : k \in DOMAIN sql' /\ sql'[k] = sql[k]
        BY <2>1, StatementBehind
      <3> QED  BY <3>1, <3>2 DEF Asked
    <2> QED  BY <1>3, <2>3, <2>4 DEF Completing
  <1>9. PICK f \in [Completing -> Destroyed] : Pays(f)
    BY DEF Earned
  <1>10. CASE r \in Completing
    BY <1>3, <1>7, <1>8, <1>9, <1>10, EarnedKept
  <1>11. CASE r \notin Completing
    <2> DEFINE g == [q \in Completing' |-> IF q = r THEN window.source ELSE f[q]]
    <2>1. g \in [Completing' -> Destroyed'] /\ g[r] = window.source
          /\ \A q \in Completing : g[q] = f[q] /\ f[q] \in Destroyed
      BY <1>7, <1>8, <1>11
    <2> HIDE DEF g
    <2>2. \A q \in Completing : g[q] # window.source
      BY <1>2, <1>9, <1>11, <2>1 DEF Pays
    <2>3. \A p, q \in Completing' : g[p] = g[q] => p = q
      BY <1>8, <1>9, <2>1, <2>2 DEF Pays
    <2>4. \A q \in Completing' : g[q] = window'.source => q = window'.row
      BY <1>2, <1>3, <1>8, <2>1, <2>2
    <2> QED  BY <2>1, <2>3, <2>4 DEF Earned, Pays
  <1> QED  BY <1>10, <1>11

LEMMA EarnedNext ==
    ASSUME TypeOK, ObservedIsOpen, Earned, [Next]_vars
    PROVE  Earned'
  <1> USE DisenchantAssumption
  <1>w. window \in Windows /\ item \in [Items -> Pieces] /\ sql \in Seq(Statement)
    BY DEF TypeOK, Windows
  <1>q. ASSUME UNCHANGED <<status, sql>> PROVE Completing' = Completing
    BY <1>q DEF Completing, Asked
  <1>o. ASSUME \A i \in Items : item[i] = "destroyed" => item'[i] = "destroyed"
        PROVE  Destroyed \subseteq Destroyed'
    BY <1>o DEF Destroyed
  <1>p. ASSUME UNCHANGED <<window, item>>, Completing' \subseteq Completing
        PROVE  Earned'
    BY <1>p, <1>o, EarnedKept
  <1>n. ASSUME window' = NoWindow \/ UNCHANGED window, Completing' \subseteq Completing,
               \A i \in Items : item[i] = "destroyed" => item'[i] = "destroyed"
        PROVE  Earned'
    <2>1. NoItem \notin Destroyed /\ NoWindow.source = NoItem
      BY NoWindowFields DEF Destroyed
    <2> QED  BY <1>n, <2>1, <1>o, EarnedKept
  <1>c. ASSUME NEW i \in Items, Collect(window, i), item[i] \in {"bag", "loot", "looted"},
               UNCHANGED <<status, sql>>
        PROVE  Earned'
    <2>1. window'.row = window.row /\ window'.source = window.source
          /\ \A j \in Items : item[j] = "destroyed" => item'[j] = "destroyed"
      BY <1>c, <1>w, CollectType
    <2> QED  BY <2>1, <1>c, <1>o, <1>q, EarnedKept
  <1>r. ASSUME NEW r \in Rows, Released(WindowOf(r)), WindowOf(r).source # NoItem
        PROVE  \A i \in Items : item[i] = "destroyed" => item'[i] = "destroyed"
    BY <1>r, WindowOfType, ReleasedType
  <1>1. CASE WorkerRuns
    BY <1>1, <1>p, AskedRun DEF WorkerRuns, game
  <1>2. CASE ReadDisenchantCommands
    <2> DEFINE a == IF ownedBusy THEN <<>> ELSE <<[kind |-> "owned"]>>
               b == IF pendingBusy THEN <<>> ELSE <<[kind |-> "pending"]>>
    <2>1. a \in Seq(Statement) /\ b \in Seq(Statement) /\ sql' = sql \o a \o b
      BY <1>2, StatementTypes, ConcatTypes DEF ReadDisenchantCommands
    <2>2. /\ \A k \in DOMAIN a : a[k].kind # "complete"
          /\ \A k \in DOMAIN b : b[k].kind # "complete"
      OBVIOUS
    <2> HIDE DEF a, b
    <2>3. a \o b \in Seq(Statement) /\ sql' = sql \o (a \o b)
      BY <1>w, <2>1
    <2>4. \A k \in DOMAIN (a \o b) : (a \o b)[k].kind # "complete"
      BY <2>1, <2>2, StatementBehind
    <2>5. UNCHANGED <<status, window, item>>
      BY <1>2 DEF ReadDisenchantCommands, table, game
    <2> QED  BY <2>3, <2>4, <2>5, <1>p, AskedKept
  <1>3. CASE ClaimingExpires \/ ReadFailed \/ LogsIn
    BY <1>3, <1>p, <1>q DEF ClaimingExpires, ReadFailed, LogsIn, table, store, game
  <1>4. CASE OwnedAnswered
    <2>1. UNCHANGED <<item, status, sql>> /\ (UNCHANGED window \/ window' = NoWindow)
      BY <1>4 DEF OwnedAnswered, Retire, table, game
    <2> QED  BY <2>1, <1>q, <1>n
  <1>5. CASE PendingAnswered
    <2>1. UNCHANGED <<status, window, item>>
      BY <1>5 DEF PendingAnswered, table, game
    <2>2. CASE UNCHANGED sql
      BY <2>1, <2>2, <1>p, <1>q
    <2>3. ASSUME NEW r \in Rows, sql' = Append(sql, [kind |-> "claim", row |-> r])
          PROVE  Earned'
      <3> DEFINE v == <<[kind |-> "claim", row |-> r]>>
      <3>1. v \in Seq(Statement) /\ \A k \in DOMAIN v : v[k].kind # "complete"
        <4>1. [kind |-> "claim", row |-> r] \in Statement
          BY StatementTypes
        <4>2. v \in Seq(Statement)
          BY <4>1
        <4>3. DOMAIN v = {1} /\ v[1].kind = "claim"
          OBVIOUS
        <4> HIDE DEF v
        <4> QED  BY <4>2, <4>3
      <3>2. sql' = sql \o v
        BY <2>3, <1>w
      <3> HIDE DEF v
      <3> QED  BY <2>1, <3>1, <3>2, <1>p, AskedKept
    <2>4. Head(answers).kind = "pending" => Head(answers).rows \subseteq Rows
      <3>1. Head(answers) \in Answer
        BY <1>5, ConcatTypes DEF PendingAnswered, Answers, TypeOK
      <3> QED  BY <3>1, AnswerFields
    <2> QED  BY <1>5, <2>2, <2>3, <2>4 DEF PendingAnswered, Answers
  <1>7. CASE Acknowledged
    <2>1. UNCHANGED <<item, status, sql>> /\ (UNCHANGED window \/ window' = NoWindow)
      BY <1>7 DEF Acknowledged, Over, NotOver, Forgotten, table, game
    <2> QED  BY <2>1, <1>q, <1>n
  <1>8. ASSUME NEW r \in Rows, Completes(r) PROVE Earned'
    BY <1>8, EarnedCompletes
  <1>9. ASSUME NEW r \in Rows, TakesLoot(r) PROVE Earned'
    <2>1. /\ WindowOf(r) = window /\ WindowOf(r).source \in Items
          /\ item[WindowOf(r).source] \in {"loot", "looted"}
      BY <1>9, WindowOfType DEF TakesLoot, HasLoot
    <2>2. UNCHANGED <<status, sql>>
      BY <1>9 DEF TakesLoot, table, store
    <2> QED  BY <1>9, <2>1, <2>2, <1>c DEF TakesLoot
  <1>10. ASSUME NEW r \in Rows, Casts(r) PROVE Earned'
    <2>1. PICK i \in Items : /\ window' = [WindowOf(r) EXCEPT !.source = i]
                             /\ item[i] \in {"bag", "loot", "looted"}
      BY <1>10 DEF Casts, MayDisenchantItem, Owns
    <2> DEFINE w == WindowOf(r)
    <2>2. w \in Windows /\ window' = [w EXCEPT !.source = i]
      BY <2>1, WindowOfType
    <2> HIDE DEF w
    <2>3. window'.source \notin Destroyed
      <3>1. window'.source = i
        BY <2>2, WindowFields
      <3> QED  BY <2>1, <3>1 DEF Destroyed
    <2>4. UNCHANGED <<status, sql, item>>
      BY <1>10 DEF Casts, table, store
    <2> QED  BY <2>3, <2>4, <1>q, <1>o, EarnedKept
  <1>11. CASE DriveRetiredDisenchant
    <2> DEFINE w == WindowOf(retired)
    <2>1. retired \in Rows /\ UNCHANGED <<status, sql>>
      BY <1>11 DEF DriveRetiredDisenchant, TypeOK, table, store
    <2>3. CASE Finishes(w) /\ Released(w) /\ window' = Forgotten(retired)
      <3>1. w.source # NoItem
        BY <2>3 DEF Finishes, ReadBack
      <3> QED  BY <2>1, <2>3, <3>1, <1>r, <1>n, <1>q DEF Forgotten
    <2>4. CASE HasLoot(w.source) /\ Collect(w, w.source)
      <3>1. w = window /\ window.source \in Items /\ item[window.source] \in {"loot", "looted"}
        BY <2>1, <2>4, WindowOfType DEF HasLoot
      <3> HIDE DEF w
      <3> QED  BY <2>1, <2>4, <3>1, <1>c
    <2>5. CASE window' = Forgotten(retired) /\ UNCHANGED game
      BY <2>1, <2>5, <1>n, <1>q DEF Forgotten, game
    <2> QED  BY <1>11, <2>3, <2>4, <2>5 DEF DriveRetiredDisenchant
  <1>12. CASE CastEnds
    <2>1. casting \in Items /\ UNCHANGED <<status, sql>>
      BY <1>12 DEF CastEnds, TypeOK, table, store
    <2>2. CASE Collect(window, casting) /\ window.source = casting /\ Owns(casting)
      BY <2>1, <2>2, <1>c DEF Owns
    <2>3. CASE /\ item' = [item EXCEPT ![casting] = IF @ = "bag" THEN "loot" ELSE @]
               /\ UNCHANGED window
      <3>1. \A i \in Items : item[i] = "destroyed" => item'[i] = "destroyed"
        BY <2>1, <2>3, <1>w
      <3> QED  BY <2>1, <2>3, <3>1, <1>n, <1>q
    <2> QED  BY <1>12, <2>1, <2>2, <2>3, <1>p, <1>q DEF CastEnds
  <1>13. CASE WindowCloses
    BY <1>13, <1>n, <1>q, ClosedType DEF WindowCloses, table, store
  <1>14. CASE BagsChange
    <2>1. \A i \in Items : item[i] = "destroyed" => item'[i] = "destroyed"
      BY <1>14, <1>w DEF BagsChange
    <2> QED  BY <1>14, <2>1, <1>n, <1>q DEF BagsChange, table, store
  <1>15. CASE LogsOut
    BY <1>15, <1>n, <1>q, ClosedType DEF LogsOut, table, store
  <1>17. CASE RowArrives \/ RowEnds \/ AbandonedEnds
    <2>1. /\ \A r \in Rows : status'[r] = "delivered" => status[r] = "delivered"
          /\ UNCHANGED <<sql, window, item>>
      BY <1>17 DEF RowArrives, RowEnds, AbandonedEnds, store, game, TypeOK
    <2>2. Completing' \subseteq Completing
      BY <2>1 DEF Completing, Asked
    <2> QED  BY <2>1, <2>2, <1>p
  <1>20. CASE Restart
    <2>1. /\ \A r \in Rows : status'[r] = "delivered" => status[r] = "delivered"
          /\ sql' = <<>> /\ window' = NoWindow
          /\ \A i \in Items : item[i] = "destroyed" => item'[i] = "destroyed"
      BY <1>20, <1>w DEF Restart, HasLoot
    <2>2. Completing' \subseteq Completing
      BY <2>1 DEF Completing, Asked
    <2> QED  BY <2>1, <2>2, <1>n
  <1>21. CASE UNCHANGED vars
    BY <1>21, <1>p, <1>q DEF vars, game, table, store
  <1> QED
    BY <1>1, <1>2, <1>3, <1>4, <1>5, <1>7, <1>8, <1>9, <1>10, <1>11, <1>12, <1>13, <1>14,
       <1>15, <1>17, <1>20, <1>21 DEF Next

LEMMA EarnedInit == Init => ObservedIsOpen /\ Earned
  <1> SUFFICES ASSUME Init PROVE ObservedIsOpen /\ Earned
    OBVIOUS
  <1>1. ObservedIsOpen
    BY NoWindowFields DEF Init, ObservedIsOpen
  <1>2. Completing = {}
    BY DEF Init, Completing, Asked
  <1> DEFINE f == [r \in Completing |-> NoItem]
  <1>3. f \in [Completing -> Destroyed] /\ Pays(f)
    BY <1>2 DEF Pays
  <1> QED  BY <1>1, <1>3 DEF Earned

LEMMA InjectionCounts ==
    ASSUME NEW S, NEW T, IsFiniteSet(T), NEW f \in [S -> T],
           \A x, y \in S : f[x] = f[y] => x = y
    PROVE  Cardinality(S) <= Cardinality(T)
  <1>1. f \in Injection(S, T)
    BY DEF Injection, IsInjective
  <1> QED  BY <1>1, FS_Injection

LEMMA EarnedCounts ==
    ASSUME Earned
    PROVE  AnswersAreEarned
  <1> DEFINE D == {r \in Rows : status[r] = "delivered"}
  <1>1. PICK f \in [Completing -> Destroyed] : Pays(f)
    BY DEF Earned
  <1>2. D \subseteq Completing
    BY DEF Completing
  <1>3. IsFiniteSet(Destroyed)
    BY FS_Subset, DisenchantAssumption DEF Destroyed
  <1> DEFINE g == [r \in D |-> f[r]]
  <1>4. g \in [D -> Destroyed] /\ \A r \in D : g[r] = f[r]
    BY <1>2
  <1>5. \A r, q \in D : g[r] = g[q] => r = q
    BY <1>1, <1>2, <1>4 DEF Pays
  <1> HIDE DEF g, D
  <1>7. Cardinality(D) <= Cardinality(Destroyed)
    BY <1>3, <1>4, <1>5, InjectionCounts
  <1> QED  BY <1>7 DEF AnswersAreEarned, D

(* No row is answered as delivered without a piece of its own: there are     *)
(* always at least as many destroyed pieces as delivered rows, through       *)
(* failed statements, lost acknowledgements, rows driven together and        *)
(* restarts (17019-17090).  Every row delivered or about to be has a         *)
(* destroyed piece nobody else has, and the open proof belongs to its row.   *)
THEOREM DeliveredRowsArePaid == Spec => []AnswersAreEarned
  <1>1. Init => TypeOK /\ ObservedIsOpen /\ Earned
    BY TypeInit, EarnedInit
  <1>2. TypeOK /\ ObservedIsOpen /\ Earned /\ [Next]_vars => (TypeOK /\ ObservedIsOpen /\ Earned)'
    BY TypeNext, ObservedNext, EarnedNext
  <1>3. Earned => AnswersAreEarned
    BY EarnedCounts
  <1> QED  BY <1>1, <1>2, <1>3, PTL DEF Spec

(***************************************************************************)
(* What is on its way to the store and back.                               *)
(***************************************************************************)
NoneOf(u, P) == \A k \in DOMAIN u : u[k] \notin P
AtMostOne(u, P) == \A j, k \in DOMAIN u : u[j] \in P /\ u[k] \in P => j = k

LEMMA QueueParts ==
    ASSUME NEW S, NEW P, NEW u \in Seq(S), NEW v \in Seq(S)
    PROVE  /\ NoneOf(u \o v, P) <=> NoneOf(u, P) /\ NoneOf(v, P)
           /\ AtMostOne(u, P) /\ NoneOf(v, P) => AtMostOne(u \o v, P)
           /\ NoneOf(u, P) /\ AtMostOne(v, P) => AtMostOne(u \o v, P)
  <1>1. \A k \in DOMAIN (u \o v) : \/ k \in DOMAIN u /\ (u \o v)[k] = u[k]
                                   \/ k - Len(u) \in DOMAIN v /\ (u \o v)[k] = v[k - Len(u)]
    OBVIOUS
  <1>2. /\ \A k \in DOMAIN u : k \in DOMAIN (u \o v) /\ (u \o v)[k] = u[k]
        /\ \A k \in DOMAIN v : Len(u) + k \in DOMAIN (u \o v) /\ (u \o v)[Len(u) + k] = v[k]
    OBVIOUS
  <1>3. NoneOf(u \o v, P) <=> NoneOf(u, P) /\ NoneOf(v, P)
    BY <1>1, <1>2 DEF NoneOf
  <1>4. ASSUME AtMostOne(u, P), NoneOf(v, P) PROVE AtMostOne(u \o v, P)
    BY <1>1, <1>4 DEF NoneOf, AtMostOne
  <1>5. ASSUME NoneOf(u, P), AtMostOne(v, P) PROVE AtMostOne(u \o v, P)
    <2> SUFFICES ASSUME NEW j \in DOMAIN (u \o v), NEW k \in DOMAIN (u \o v),
                        (u \o v)[j] \in P, (u \o v)[k] \in P
                 PROVE  j = k
      BY DEF AtMostOne
    <2>1. /\ j - Len(u) \in DOMAIN v /\ v[j - Len(u)] \in P
          /\ k - Len(u) \in DOMAIN v /\ v[k - Len(u)] \in P
      BY <1>1, <1>5 DEF NoneOf
    <2>2. j - Len(u) = k - Len(u)
      BY <2>1, <1>5 DEF AtMostOne
    <2>3. j \in Nat /\ k \in Nat /\ Len(u) \in Nat
      OBVIOUS
    <2> QED  BY <2>2, <2>3
  <1> QED  BY <1>3, <1>4, <1>5

LEMMA QueueHead ==
    ASSUME NEW S, NEW P, NEW u \in Seq(S), u # <<>>
    PROVE  /\ NoneOf(u, P) <=> Head(u) \notin P /\ NoneOf(Tail(u), P)
           /\ AtMostOne(u, P) => AtMostOne(Tail(u), P)
           /\ AtMostOne(u, P) /\ Head(u) \in P => NoneOf(Tail(u), P)
  <1>1. /\ \A k \in DOMAIN Tail(u) : /\ k + 1 \in DOMAIN u /\ Tail(u)[k] = u[k + 1]
                                     /\ k \in Nat /\ k # 0
        /\ \A k \in DOMAIN u : k # 1 => k - 1 \in DOMAIN Tail(u) /\ Tail(u)[k - 1] = u[k]
        /\ 1 \in DOMAIN u /\ Head(u) = u[1]
    OBVIOUS
  <1>2. NoneOf(u, P) <=> Head(u) \notin P /\ NoneOf(Tail(u), P)
    BY <1>1 DEF NoneOf
  <1>3. AtMostOne(u, P) => AtMostOne(Tail(u), P)
    <2> SUFFICES ASSUME AtMostOne(u, P), NEW j \in DOMAIN Tail(u), NEW k \in DOMAIN Tail(u),
                        Tail(u)[j] \in P, Tail(u)[k] \in P
                 PROVE  j = k
      BY DEF AtMostOne
    <2>1. j + 1 = k + 1
      BY <1>1 DEF AtMostOne
    <2> QED  BY <1>1, <2>1
  <1>4. AtMostOne(u, P) /\ Head(u) \in P => NoneOf(Tail(u), P)
    <2> SUFFICES ASSUME AtMostOne(u, P), Head(u) \in P, NEW k \in DOMAIN Tail(u), Tail(u)[k] \in P
                 PROVE  FALSE
      BY DEF NoneOf
    <2>1. k + 1 = 1
      BY <1>1 DEF AtMostOne
    <2> QED  BY <1>1, <2>1
  <1> QED  BY <1>2, <1>3, <1>4

LEMMA QueueOne ==
    ASSUME NEW P, NEW x
    PROVE  /\ NoneOf(<<x>>, P) <=> x \notin P
           /\ AtMostOne(<<x>>, P) /\ NoneOf(<<>>, P) /\ AtMostOne(<<>>, P)
  <1>1. DOMAIN <<x>> = {1} /\ <<x>>[1] = x /\ DOMAIN <<>> = {}
    OBVIOUS
  <1> QED  BY <1>1 DEF NoneOf, AtMostOne

LEMMA FewerOf ==
    ASSUME NEW u, NEW P, NEW Q, Q \subseteq P, NoneOf(u, P)
    PROVE  NoneOf(u, Q)
  BY DEF NoneOf

(***************************************************************************)
(* Rows that left the queue, and among them those this run does not hold.  *)
(***************************************************************************)
Left == {r \in Rows : status[r] \notin {"absent", "pending"}}
Gone == Left \ Claimed

\* A row that left the queue never comes back to it, and a claim that is over
\* is never this run's again.
LEMMA StatusMoves ==
    ASSUME TypeOK, [Next]_vars
    PROVE  Left \subseteq Left' /\ Gone \subseteq Gone'
  <1>s. ASSUME UNCHANGED status PROVE Left \subseteq Left' /\ Gone \subseteq Gone'
    BY <1>s DEF Left, Gone, Claimed
  <1>1. CASE WorkerRuns
    <2>1. Head(sql) \in Statement
      BY <1>1, ConcatTypes DEF WorkerRuns, TypeOK
    <2>2. CASE status' = Written(Head(sql))
      BY <2>1, <2>2, StatementRow DEF Written, TypeOK, Left, Gone, Claimed
    <2> QED  BY <1>1, <2>2, <1>s DEF WorkerRuns
  <1>2. CASE \/ ReadDisenchantCommands \/ ClaimingExpires \/ OwnedAnswered \/ PendingAnswered
             \/ ReadFailed \/ Acknowledged
    BY <1>2, <1>s DEF ReadDisenchantCommands, ClaimingExpires, OwnedAnswered, PendingAnswered,
       ReadFailed, Acknowledged, table
  <1>3. ASSUME NEW r \in Rows, Completes(r) \/ TakesLoot(r) \/ Casts(r)
        PROVE  Left \subseteq Left' /\ Gone \subseteq Gone'
    BY <1>3, <1>s DEF Completes, TakesLoot, Casts, table
  <1>4. CASE \/ DriveRetiredDisenchant \/ CastEnds \/ WindowCloses \/ BagsChange \/ LogsOut
             \/ LogsIn \/ UNCHANGED vars
    BY <1>4, <1>s DEF DriveRetiredDisenchant, CastEnds, WindowCloses, BagsChange, LogsOut, LogsIn,
       vars, table
  <1>5. CASE RowArrives \/ RowEnds \/ AbandonedEnds
    BY <1>5 DEF RowArrives, RowEnds, AbandonedEnds, TypeOK, Left, Gone, Claimed
  <1>6. CASE Restart
    BY <1>6 DEF Restart, TypeOK, Left, Gone, Claimed
  <1> QED  BY <1>1, <1>2, <1>3, <1>4, <1>5, <1>6 DEF Next

OwnedRead == {s \in Statement : s.kind = "owned"}
OwnedTold == {a \in Answer : a.kind = "owned" \/ (a.kind = "failed" /\ a.of = "owned")}
AckRead(r) == {s \in Statement : s.kind = "acknowledge" /\ s.row = r}
AckTold(r) == {a \in Answer : a.kind = "acknowledge" /\ a.row = r}
OverTold(r) == {a \in Answer : a.kind = "acknowledge" /\ a.row = r /\ a.over}
Lists(r) == {a \in Answer : a.kind = "owned" /\ r \in a.rows}
Misses(r) == {a \in Answer : a.kind = "owned" /\ r \notin a.rows}

\* What one statement adds to the answers.
LEMMA WorkerTells ==
    ASSUME TypeOK, NEW s \in Statement, NEW v \in {Read(s), Failed(s)}
    PROVE  /\ v \in Seq(Answer)
           /\ AtMostOne(v, OwnedTold)
           /\ s \notin OwnedRead => NoneOf(v, OwnedTold)
           /\ \A r \in Rows : AtMostOne(v, AckTold(r)) /\ (s \notin AckRead(r) => NoneOf(v, AckTold(r)))
           /\ \A r \in Rows : r \in Claimed => NoneOf(v, OverTold(r)) /\ NoneOf(v, Misses(r))
           /\ \A r \in Rows : r \notin Claimed => NoneOf(v, Lists(r))
  <1>0. v \in Seq(Answer)
    BY WorkerAnswers
  <1>1. CASE v = <<>>
    BY <1>0, <1>1, QueueOne
  <1>2. ASSUME NEW a, v = <<a>>,
               s.kind = "pending", a.kind = "pending" \/ (a.kind = "failed" /\ a.of = "pending")
        PROVE  /\ \A r \in Rows : a \notin AckTold(r) /\ a \notin OverTold(r)
               /\ \A r \in Rows : a \notin Lists(r) /\ a \notin Misses(r)
               /\ a \notin OwnedTold
    BY <1>2 DEF AckTold, OverTold, Lists, Misses, OwnedTold
  <1>3. ASSUME NEW a, v = <<a>>,
               s.kind = "owned",
               \/ a.kind = "owned" /\ a.rows = Claimed
               \/ a.kind = "failed" /\ a.of = "owned"
        PROVE  /\ \A r \in Rows : a \notin AckTold(r) /\ a \notin OverTold(r)
               /\ \A r \in Rows : r \in Claimed => a \notin Misses(r)
               /\ \A r \in Rows : r \notin Claimed => a \notin Lists(r)
               /\ s \in OwnedRead
    BY <1>3 DEF AckTold, OverTold, Lists, Misses, OwnedRead
  <1>4. ASSUME NEW a, v = <<a>>,
               s.kind = "acknowledge", a.kind = "acknowledge", a.row = s.row,
               a.over = FALSE \/ s.row \notin Claimed
        PROVE  /\ \A r \in Rows : a \notin Lists(r) /\ a \notin Misses(r)
               /\ \A r \in Rows : r \in Claimed => a \notin OverTold(r)
               /\ \A r \in Rows : s \notin AckRead(r) => a \notin AckTold(r)
               /\ a \notin OwnedTold
    BY <1>4 DEF AckTold, OverTold, Lists, Misses, OwnedTold, AckRead
  <1>5. CASE s.kind = "pending"
    <2>1. PICK a : v = <<a>> /\ (a.kind = "pending" \/ (a.kind = "failed" /\ a.of = "pending"))
      BY <1>5 DEF Read, Failed
    <2> QED  BY <1>0, <1>2, <1>5, <2>1, QueueOne
  <1>6. CASE s.kind = "owned"
    <2> DEFINE told == [kind |-> "owned", rows |-> Claimed]
               fail == [kind |-> "failed", of |-> s.kind]
    <2>1. told.kind = "owned" /\ told.rows = Claimed /\ fail.kind = "failed" /\ fail.of = "owned"
      BY <1>6
    <2>2. v = <<told>> \/ v = <<fail>>
      BY <1>6 DEF Read, Failed
    <2> HIDE DEF told, fail
    <2>3. PICK a : /\ v = <<a>>
                   /\ (a.kind = "owned" /\ a.rows = Claimed) \/ (a.kind = "failed" /\ a.of = "owned")
      BY <2>1, <2>2
    <2>4. /\ \A r \in Rows : a \notin AckTold(r) /\ a \notin OverTold(r)
          /\ \A r \in Rows : r \in Claimed => a \notin Misses(r)
          /\ \A r \in Rows : r \notin Claimed => a \notin Lists(r)
          /\ s \in OwnedRead
      BY <1>3, <1>6, <2>3
    <2> QED  BY <1>0, <2>3, <2>4, QueueOne
  <1>7. CASE s.kind = "acknowledge"
    <2> DEFINE told == [kind |-> "acknowledge", row |-> s.row, over |-> s.row \notin Claimed]
               fail == [kind |-> "acknowledge", row |-> s.row, over |-> FALSE]
    <2>2. /\ told.kind = "acknowledge" /\ told.row = s.row /\ told.over = (s.row \notin Claimed)
          /\ fail.kind = "acknowledge" /\ fail.row = s.row /\ fail.over = FALSE
      OBVIOUS
    <2>3. v = <<told>> \/ v = <<fail>>
      BY <1>7 DEF Read, Failed
    <2> HIDE DEF told, fail
    <2>1. PICK a : /\ v = <<a>> /\ a.kind = "acknowledge" /\ a.row = s.row
                   /\ (a.over = FALSE \/ s.row \notin Claimed)
      <3>1. told.over = FALSE \/ s.row \notin Claimed
        BY <2>2
      <3> QED  BY <2>2, <2>3, <3>1
    <2> QED  BY <1>0, <1>4, <1>7, <2>1, QueueOne
  <1>8. CASE s.kind \notin {"pending", "owned", "acknowledge"}
    BY <1>1, <1>8 DEF Read, Failed
  <1> QED  BY <1>5, <1>6, <1>7, <1>8

(***************************************************************************)
(* The books of the claims: at most one snapshot and one acknowledgement   *)
(* of a row are on their way, and what they say stays true until they are  *)
(* read.                                                                   *)
(***************************************************************************)
OneRead ==
    /\ AtMostOne(sql, OwnedRead) /\ AtMostOne(answers, OwnedTold)
    /\ NoneOf(sql, OwnedRead) \/ NoneOf(answers, OwnedTold)
    /\ ~ ownedBusy => NoneOf(sql, OwnedRead) /\ NoneOf(answers, OwnedTold)

OneAck == \A r \in Rows :
    /\ AtMostOne(sql, AckRead(r)) /\ AtMostOne(answers, AckTold(r))
    /\ NoneOf(sql, AckRead(r)) \/ NoneOf(answers, AckTold(r))
    /\ task[r] # "completing" => NoneOf(sql, AckRead(r)) /\ NoneOf(answers, AckTold(r))

\* A row acknowledged as over is gone.
OverIsGone == \A r \in Rows \ Gone : NoneOf(answers, OverTold(r))

\* Rows in hand, and rows a snapshot names, have left the queue.
TasksLeft ==
    /\ \A r \in Rows : task[r] # "none" => r \in Left
    /\ \A r \in Rows \ Left : NoneOf(answers, Lists(r))

\* A row in hand that a snapshot does not name is gone.
SnapshotTells == \A r \in Rows \ Gone : task[r] # "none" => NoneOf(answers, Misses(r))

CompletedIsOver == \A r \in completed : task[r] = "none" /\ r \in Gone

Books == OneRead /\ OneAck /\ OverIsGone /\ TasksLeft /\ SnapshotTells /\ CompletedIsOver

LEMMA BooksInit == Init => Books
  <1> SUFFICES ASSUME Init PROVE Books
    OBVIOUS
  <1>1. \A P : /\ NoneOf(sql, P) /\ NoneOf(answers, P)
               /\ AtMostOne(sql, P) /\ AtMostOne(answers, P)
    BY QueueOne DEF Init
  <1> QED
    BY <1>1 DEF Init, Books, OneRead, OneAck, OverIsGone, TasksLeft, SnapshotTells, CompletedIsOver

LEMMA BooksStand ==
    ASSUME Books, UNCHANGED <<sql, answers, ownedBusy, task, completed>>,
           Left \subseteq Left', Gone \subseteq Gone'
    PROVE  Books'
  BY DEF Books, OneRead, OneAck, OverIsGone, TasksLeft, SnapshotTells, CompletedIsOver, NoneOf,
     AtMostOne, OwnedRead, OwnedTold, AckRead, AckTold, OverTold, Lists, Misses

LEMMA BooksWorker ==
    ASSUME TypeOK, Books, WorkerRuns, Left \subseteq Left', Gone \subseteq Gone'
    PROVE  Books'
  <1> DEFINE s == Head(sql)
  <1>1. /\ sql \in Seq(Statement) /\ answers \in Seq(Answer) /\ sql # <<>>
        /\ s \in Statement /\ sql' = Tail(sql)
    BY ConcatTypes DEF TypeOK, WorkerRuns
  <1>2. PICK v \in {Read(s), Failed(s)} : answers' = answers \o v
    BY DEF WorkerRuns
  <1>3. UNCHANGED <<ownedBusy, task, completed>>
    BY DEF WorkerRuns, memory
  <1> HIDE DEF s
  <1>4. /\ v \in Seq(Answer)
        /\ AtMostOne(v, OwnedTold)
        /\ s \notin OwnedRead => NoneOf(v, OwnedTold)
        /\ \A r \in Rows : AtMostOne(v, AckTold(r)) /\ (s \notin AckRead(r) => NoneOf(v, AckTold(r)))
        /\ \A r \in Rows : r \in Claimed => NoneOf(v, OverTold(r)) /\ NoneOf(v, Misses(r))
        /\ \A r \in Rows : r \notin Claimed => NoneOf(v, Lists(r))
    BY <1>1, WorkerTells
  <1>5. \A P : /\ NoneOf(answers', P) <=> NoneOf(answers, P) /\ NoneOf(v, P)
               /\ AtMostOne(answers, P) /\ NoneOf(v, P) => AtMostOne(answers', P)
               /\ NoneOf(answers, P) /\ AtMostOne(v, P) => AtMostOne(answers', P)
    BY <1>1, <1>2, <1>4, QueueParts
  <1>6. \A P : /\ NoneOf(sql, P) <=> s \notin P /\ NoneOf(sql', P)
               /\ AtMostOne(sql, P) => AtMostOne(sql', P)
               /\ AtMostOne(sql, P) /\ s \in P => NoneOf(sql', P)
    BY <1>1, QueueHead DEF s
  <1>7. OneRead'
    <2>1. /\ AtMostOne(sql', OwnedRead) /\ AtMostOne(answers', OwnedTold)
          /\ NoneOf(sql', OwnedRead) \/ NoneOf(answers', OwnedTold)
          /\ ~ ownedBusy => NoneOf(sql', OwnedRead) /\ NoneOf(answers', OwnedTold)
      BY <1>4, <1>5, <1>6 DEF Books, OneRead
    <2> QED  BY <2>1, <1>3 DEF OneRead, OwnedRead, OwnedTold
  <1>8. OneAck'
    <2> SUFFICES ASSUME NEW r \in Rows
                 PROVE  /\ AtMostOne(sql', AckRead(r)) /\ AtMostOne(answers', AckTold(r))
                        /\ NoneOf(sql', AckRead(r)) \/ NoneOf(answers', AckTold(r))
                        /\ task[r] # "completing" => /\ NoneOf(sql', AckRead(r))
                                                     /\ NoneOf(answers', AckTold(r))
      BY <1>3 DEF OneAck, AckRead, AckTold
    <2>1. /\ AtMostOne(sql, AckRead(r)) /\ AtMostOne(answers, AckTold(r))
          /\ NoneOf(sql, AckRead(r)) \/ NoneOf(answers, AckTold(r))
          /\ task[r] # "completing" => NoneOf(sql, AckRead(r)) /\ NoneOf(answers, AckTold(r))
      BY DEF Books, OneAck
    <2> QED  BY <2>1, <1>4, <1>5, <1>6
  <1>9. OverIsGone'
    <2> SUFFICES ASSUME NEW r \in Rows, r \notin Gone'
                 PROVE  NoneOf(answers', OverTold(r))
      BY DEF OverIsGone, OverTold
    <2>1. NoneOf(answers, OverTold(r))
      BY DEF Books, OverIsGone
    <2>2. NoneOf(v, OverTold(r))
      <3>1. CASE r \in Claimed
        BY <3>1, <1>4
      <3>2. CASE r \notin Left
        <4>1. s \notin AckRead(r)
          BY <3>2, <1>6 DEF Books, OneAck, TasksLeft
        <4>2. NoneOf(v, AckTold(r)) /\ OverTold(r) \subseteq AckTold(r)
          BY <4>1, <1>4 DEF OverTold, AckTold
        <4> QED  BY <4>2, FewerOf
      <3> QED  BY <3>1, <3>2 DEF Gone
    <2> QED  BY <2>1, <2>2, <1>5
  <1>10. TasksLeft'
    <2>1. \A r \in Rows : r \notin Left' => NoneOf(answers', Lists(r))
      <3> SUFFICES ASSUME NEW r \in Rows, r \notin Left' PROVE NoneOf(answers', Lists(r))
        OBVIOUS
      <3>1. NoneOf(answers, Lists(r)) /\ r \notin Claimed
        BY DEF Books, TasksLeft, Left, Claimed
      <3> QED  BY <3>1, <1>4, <1>5
    <2> QED  BY <2>1, <1>3 DEF Books, TasksLeft, Lists
  <1>11. SnapshotTells'
    <2>1. \A r \in Rows : r \notin Gone' /\ task[r] # "none" => NoneOf(answers', Misses(r))
      <3> SUFFICES ASSUME NEW r \in Rows, r \notin Gone', task[r] # "none"
                   PROVE  NoneOf(answers', Misses(r))
        OBVIOUS
      <3>1. NoneOf(answers, Misses(r)) /\ r \in Claimed
        BY DEF Books, TasksLeft, SnapshotTells, Gone
      <3> QED  BY <3>1, <1>4, <1>5
    <2> QED  BY <2>1, <1>3 DEF SnapshotTells, Misses
  <1>12. CompletedIsOver'
    BY <1>3 DEF Books, CompletedIsOver
  <1> QED  BY <1>7, <1>8, <1>9, <1>10, <1>11, <1>12 DEF Books

\* Statements that neither read the claims nor acknowledge a row.
LEMMA BooksAsk ==
    ASSUME TypeOK, Books, NEW v \in Seq(Statement), sql' = sql \o v,
           \A r \in Rows : NoneOf(v, AckRead(r)),
           AtMostOne(v, OwnedRead), ownedBusy => NoneOf(v, OwnedRead),
           ~ NoneOf(v, OwnedRead) => ownedBusy',
           ownedBusy => ownedBusy',
           UNCHANGED <<status, answers, task, completed>>
    PROVE  Books'
  <1>1. sql \in Seq(Statement)
    BY DEF TypeOK
  <1>2. \A P : /\ NoneOf(sql', P) <=> NoneOf(sql, P) /\ NoneOf(v, P)
               /\ AtMostOne(sql, P) /\ NoneOf(v, P) => AtMostOne(sql', P)
               /\ NoneOf(sql, P) /\ AtMostOne(v, P) => AtMostOne(sql', P)
    BY <1>1, QueueParts
  <1>3. OneRead'
    <2>1. /\ AtMostOne(sql', OwnedRead) /\ AtMostOne(answers, OwnedTold)
          /\ NoneOf(sql', OwnedRead) \/ NoneOf(answers, OwnedTold)
          /\ ~ ownedBusy' => NoneOf(sql', OwnedRead) /\ NoneOf(answers, OwnedTold)
      BY <1>2 DEF Books, OneRead
    <2> QED  BY <2>1 DEF OneRead, OwnedRead, OwnedTold
  <1>4. OneAck'
    <2>1. \A r \in Rows : /\ AtMostOne(sql', AckRead(r)) /\ AtMostOne(answers, AckTold(r))
                          /\ NoneOf(sql', AckRead(r)) \/ NoneOf(answers, AckTold(r))
                          /\ task[r] # "completing" => /\ NoneOf(sql', AckRead(r))
                                                       /\ NoneOf(answers, AckTold(r))
      BY <1>2 DEF Books, OneAck
    <2> QED  BY <2>1 DEF OneAck, AckRead, AckTold
  <1>5. OverIsGone' /\ TasksLeft' /\ SnapshotTells' /\ CompletedIsOver'
    BY DEF Books, OverIsGone, TasksLeft, SnapshotTells, CompletedIsOver, NoneOf, Left, Gone, Claimed,
       OverTold, Lists, Misses
  <1> QED  BY <1>3, <1>4, <1>5 DEF Books

LEMMA AnswersHeard ==
    ASSUME TypeOK, answers # <<>>, answers' = Tail(answers)
    PROVE  /\ Head(answers) \in Answer
           /\ \A P : /\ NoneOf(answers, P) <=> Head(answers) \notin P /\ NoneOf(answers', P)
                     /\ AtMostOne(answers, P) => AtMostOne(answers', P)
                     /\ AtMostOne(answers, P) /\ Head(answers) \in P => NoneOf(answers', P)
  <1>1. answers \in Seq(Answer)
    BY DEF TypeOK
  <1> QED  BY <1>1, QueueHead, ConcatTypes

\* An answer is read that changes no task, and what is sent then is harmless.
LEMMA BooksHeard ==
    ASSUME TypeOK, Books, answers # <<>>, answers' = Tail(answers),
           NEW v \in Seq(Statement), sql' = sql \o v,
           NoneOf(v, OwnedRead), \A r \in Rows : NoneOf(v, AckRead(r)),
           UNCHANGED <<status, task>>, completed' \subseteq completed,
           UNCHANGED ownedBusy \/ Head(answers) \in OwnedTold
    PROVE  Books'
  <1>1. sql \in Seq(Statement)
    BY DEF TypeOK
  <1>2. \A P : /\ NoneOf(sql', P) <=> NoneOf(sql, P) /\ NoneOf(v, P)
               /\ AtMostOne(sql, P) /\ NoneOf(v, P) => AtMostOne(sql', P)
    BY <1>1, QueueParts
  <1>3. \A P : /\ NoneOf(answers, P) <=> Head(answers) \notin P /\ NoneOf(answers', P)
               /\ AtMostOne(answers, P) => AtMostOne(answers', P)
               /\ AtMostOne(answers, P) /\ Head(answers) \in P => NoneOf(answers', P)
    BY AnswersHeard
  <1>4. OneRead'
    <2>1. /\ AtMostOne(sql', OwnedRead) /\ AtMostOne(answers', OwnedTold)
          /\ NoneOf(sql', OwnedRead) \/ NoneOf(answers', OwnedTold)
          /\ ~ ownedBusy' => NoneOf(sql', OwnedRead) /\ NoneOf(answers', OwnedTold)
      BY <1>2, <1>3 DEF Books, OneRead
    <2> QED  BY <2>1 DEF OneRead, OwnedRead, OwnedTold
  <1>5. OneAck'
    <2>1. \A r \in Rows : /\ AtMostOne(sql', AckRead(r)) /\ AtMostOne(answers', AckTold(r))
                          /\ NoneOf(sql', AckRead(r)) \/ NoneOf(answers', AckTold(r))
                          /\ task[r] # "completing" => /\ NoneOf(sql', AckRead(r))
                                                       /\ NoneOf(answers', AckTold(r))
      BY <1>2, <1>3 DEF Books, OneAck
    <2> QED  BY <2>1 DEF OneAck, AckRead, AckTold
  <1>6. Left' = Left /\ Gone' = Gone
    BY DEF Left, Gone, Claimed
  <1>7. OverIsGone' /\ TasksLeft' /\ SnapshotTells'
    <2>1. /\ \A r \in Rows \ Gone : NoneOf(answers', OverTold(r))
          /\ \A r \in Rows \ Left : NoneOf(answers', Lists(r))
          /\ \A r \in Rows \ Gone : task[r] # "none" => NoneOf(answers', Misses(r))
          /\ \A r \in Rows : task[r] # "none" => r \in Left
      BY <1>3 DEF Books, OverIsGone, TasksLeft, SnapshotTells
    <2> QED  BY <2>1, <1>6 DEF OverIsGone, TasksLeft, SnapshotTells, OverTold, Lists, Misses
  <1>8. CompletedIsOver'
    BY <1>6 DEF Books, CompletedIsOver
  <1> QED  BY <1>4, <1>5, <1>7, <1>8 DEF Books

LEMMA BooksOwned ==
    ASSUME TypeOK, Books, OwnedAnswered
    PROVE  /\ Books'
           /\ \A r \in Rows : NoneOf(answers', Lists(r))
           /\ Head(answers) \in Answer /\ Head(answers).rows \subseteq Rows
           /\ \A r \in Rows : task[r] # "none" /\ r \notin Head(answers).rows => r \in Gone
  <1> DEFINE owned == Head(answers).rows \ completed
             gone == {r \in Rows : task[r] = "driving" /\ r \notin owned}
  <1>1. /\ answers # <<>> /\ Head(answers).kind = "owned" /\ answers' = Tail(answers)
        /\ UNCHANGED <<status, sql>> /\ ownedBusy' = FALSE /\ completed' = {}
        /\ task' = [r \in Rows |-> IF r \in gone THEN "none"
                                   ELSE IF r \in owned /\ task[r] = "none" THEN "driving"
                                   ELSE task[r]]
    BY DEF OwnedAnswered, Answers, table
  <1>2. Head(answers) \in Answer
    BY <1>1, AnswersHeard
  <1>3. \A P : /\ NoneOf(answers, P) <=> Head(answers) \notin P /\ NoneOf(answers', P)
               /\ AtMostOne(answers, P) => AtMostOne(answers', P)
               /\ AtMostOne(answers, P) /\ Head(answers) \in P => NoneOf(answers', P)
    BY <1>1, AnswersHeard
  <1>4. Head(answers) \in OwnedTold
    BY <1>1, <1>2 DEF OwnedTold
  <1>5. NoneOf(answers', OwnedTold) /\ NoneOf(sql, OwnedRead) /\ AtMostOne(answers', OwnedTold)
    BY <1>3, <1>4 DEF Books, OneRead
  <1>6. \A r \in Rows : NoneOf(answers', Lists(r)) /\ NoneOf(answers', Misses(r))
    <2> SUFFICES ASSUME NEW r \in Rows PROVE NoneOf(answers', Lists(r)) /\ NoneOf(answers', Misses(r))
      OBVIOUS
    <2>1. Lists(r) \subseteq OwnedTold /\ Misses(r) \subseteq OwnedTold
      BY DEF Lists, Misses, OwnedTold
    <2> QED  BY <2>1, <1>5, FewerOf
  <1>7. \A r \in Rows : task'[r] = "completing" <=> task[r] = "completing"
    BY <1>1 DEF TypeOK
  <1>8. \A r \in Rows : task[r] # "none" /\ r \notin Head(answers).rows => r \in Gone
    BY <1>1, <1>2, <1>3 DEF Books, SnapshotTells, Misses
  <1>9. \A r \in Head(answers).rows : r \in Left
    <2> SUFFICES ASSUME NEW r \in Head(answers).rows PROVE r \in Left
      OBVIOUS
    <2>1. r \in Rows
      BY <1>1, <1>2, AnswerFields
    <2>2. Head(answers) \in Lists(r)
      BY <1>1, <1>2 DEF Lists
    <2> QED  BY <2>1, <2>2, <1>3 DEF Books, TasksLeft
  <1>10. Left' = Left /\ Gone' = Gone
    BY <1>1 DEF Left, Gone, Claimed
  <1>11. OneRead'
    BY <1>1, <1>5 DEF OneRead, OwnedRead, OwnedTold, Books, AtMostOne
  <1>12. OneAck'
    <2>1. \A r \in Rows : /\ AtMostOne(sql, AckRead(r)) /\ AtMostOne(answers', AckTold(r))
                          /\ NoneOf(sql, AckRead(r)) \/ NoneOf(answers', AckTold(r))
                          /\ task'[r] # "completing" => /\ NoneOf(sql, AckRead(r))
                                                        /\ NoneOf(answers', AckTold(r))
      BY <1>3, <1>7 DEF Books, OneAck
    <2>2. sql' = sql
      BY <1>1
    <2> QED  BY <2>1, <2>2 DEF OneAck, AckRead, AckTold
  <1>13. OverIsGone'
    <2>1. \A r \in Rows \ Gone : NoneOf(answers', OverTold(r))
      BY <1>3 DEF Books, OverIsGone
    <2> QED  BY <2>1, <1>10 DEF OverIsGone, OverTold
  <1>14. TasksLeft'
    <2>1. \A r \in Rows : task'[r] # "none" => r \in Left
      BY <1>1, <1>9 DEF Books, TasksLeft
    <2> QED  BY <2>1, <1>6, <1>10 DEF TasksLeft, Lists
  <1>15. SnapshotTells' /\ CompletedIsOver'
    BY <1>1, <1>6 DEF SnapshotTells, CompletedIsOver, Misses
  <1>16. Head(answers).rows \subseteq Rows
    BY <1>1, <1>2, AnswerFields
  <1> HIDE DEF owned, gone
  <1> QED  BY <1>2, <1>6, <1>8, <1>11, <1>12, <1>13, <1>14, <1>15, <1>16 DEF Books

\* An acknowledgement is of a row whose completion is waited for, and says
\* that it is over only when it is.
LEMMA AckIsTrue ==
    ASSUME TypeOK, Books, Answers("acknowledge")
    PROVE  /\ Head(answers).row \in Rows /\ task[Head(answers).row] = "completing"
           /\ Head(answers).over => Head(answers).row \in Gone
  <1> DEFINE a == Head(answers)
  <1>1. answers # <<>> /\ a.kind = "acknowledge" /\ answers' = Tail(answers)
    BY DEF Answers
  <1>2. /\ a \in Answer
        /\ \A P : NoneOf(answers, P) => a \notin P
    BY <1>1, AnswersHeard
  <1> HIDE DEF a
  <1>3. a.row \in Rows
    BY <1>1, <1>2, AnswerFields
  <1>4. a \in AckTold(a.row)
    BY <1>1, <1>2 DEF AckTold
  <1>5. a.over => a \in OverTold(a.row)
    BY <1>1, <1>2 DEF OverTold
  <1> QED  BY <1>2, <1>3, <1>4, <1>5 DEF Books, OneAck, OverIsGone, a

LEMMA BooksAck ==
    ASSUME TypeOK, Books, Acknowledged
    PROVE  Books'
  <1> DEFINE q == Head(answers).row
  <1>1. /\ answers # <<>> /\ answers' = Tail(answers) /\ UNCHANGED <<status, sql, ownedBusy>>
        /\ Head(answers).kind = "acknowledge"
    BY DEF Acknowledged, Answers, table
  <1>2. q \in Rows /\ task[q] = "completing" /\ (Head(answers).over => q \in Gone)
    BY AckIsTrue DEF Acknowledged
  <1>3. \A P : /\ NoneOf(answers, P) <=> Head(answers) \notin P /\ NoneOf(answers', P)
               /\ AtMostOne(answers, P) => AtMostOne(answers', P)
               /\ AtMostOne(answers, P) /\ Head(answers) \in P => NoneOf(answers', P)
    BY <1>1, AnswersHeard
  <1>4. Head(answers) \in AckTold(q)
    BY <1>1, AnswersHeard DEF AckTold
  <1>5. \/ task' = [task EXCEPT ![q] = "none"] /\ completed' = completed \cup {q} /\ q \in Gone
        \/ task' = [task EXCEPT ![q] = "driving"] /\ completed' = completed
    BY <1>2 DEF Acknowledged, Over, NotOver
  <1>6. Left' = Left /\ Gone' = Gone
    BY <1>1 DEF Left, Gone, Claimed
  <1> HIDE DEF q
  <1>7. /\ task'[q] \in {"none", "driving"} /\ \A r \in Rows : r # q => task'[r] = task[r]
        /\ task'[q] = "none" \/ completed' = completed
    BY <1>2, <1>5 DEF TypeOK
  <1>8. OneRead'
    <2>1. /\ AtMostOne(sql, OwnedRead) /\ AtMostOne(answers', OwnedTold)
          /\ NoneOf(sql, OwnedRead) \/ NoneOf(answers', OwnedTold)
          /\ ~ ownedBusy => NoneOf(sql, OwnedRead) /\ NoneOf(answers', OwnedTold)
      BY <1>3 DEF Books, OneRead
    <2>2. sql' = sql /\ ownedBusy' = ownedBusy
      BY <1>1
    <2> QED  BY <2>1, <2>2 DEF OneRead, OwnedRead, OwnedTold
  <1>9. OneAck'
    <2> SUFFICES ASSUME NEW r \in Rows
                 PROVE  /\ AtMostOne(sql, AckRead(r)) /\ AtMostOne(answers', AckTold(r))
                        /\ NoneOf(sql, AckRead(r)) \/ NoneOf(answers', AckTold(r))
                        /\ task'[r] # "completing" => /\ NoneOf(sql, AckRead(r))
                                                      /\ NoneOf(answers', AckTold(r))
      BY <1>1 DEF OneAck, AckRead, AckTold
    <2>1. CASE r = q
      BY <2>1, <1>3, <1>4 DEF Books, OneAck
    <2>2. CASE r # q
      BY <2>2, <1>3, <1>7 DEF Books, OneAck
    <2> QED  BY <2>1, <2>2
  <1>10. OverIsGone'
    <2>1. \A r \in Rows \ Gone : NoneOf(answers', OverTold(r))
      BY <1>3 DEF Books, OverIsGone
    <2> QED  BY <2>1, <1>6 DEF OverIsGone, OverTold
  <1>11. TasksLeft'
    <2>1. \A r \in Rows : task'[r] # "none" => r \in Left
      BY <1>2, <1>7 DEF Books, TasksLeft
    <2>2. \A r \in Rows \ Left : NoneOf(answers', Lists(r))
      BY <1>3 DEF Books, TasksLeft
    <2> QED  BY <2>1, <2>2, <1>6 DEF TasksLeft, Lists
  <1>12. SnapshotTells'
    <2>1. \A r \in Rows \ Gone : task'[r] # "none" => NoneOf(answers', Misses(r))
      BY <1>2, <1>3, <1>7 DEF Books, SnapshotTells
    <2> QED  BY <2>1, <1>6 DEF SnapshotTells, Misses
  <1>13. CompletedIsOver'
    <2>1. \A r \in completed : task[r] = "none" /\ r \in Gone /\ r \in Rows
      BY DEF Books, CompletedIsOver, TypeOK
    <2>2. q \notin completed
      BY <2>1, <1>2
    <2> QED  BY <2>1, <2>2, <1>2, <1>5, <1>6, <1>7 DEF CompletedIsOver
  <1> QED  BY <1>8, <1>9, <1>10, <1>11, <1>12, <1>13 DEF Books

LEMMA BooksCompletes ==
    ASSUME TypeOK, Books, NEW q \in Rows, Completes(q)
    PROVE  Books'
  <1> DEFINE v == <<[kind |-> "complete", row |-> q], [kind |-> "acknowledge", row |-> q]>>
  <1>1. /\ sql' = sql \o v /\ task' = [task EXCEPT ![q] = "completing"] /\ task[q] = "driving"
        /\ UNCHANGED <<status, answers, ownedBusy, completed>>
    BY DEF Completes, Driven, table
  <1>2. v \in Seq(Statement) /\ sql \in Seq(Statement)
    BY StatementTypes, ConcatTypes DEF TypeOK
  <1>3. /\ DOMAIN v = {1, 2} /\ v[1].kind = "complete"
        /\ v[2].kind = "acknowledge" /\ v[2].row = q
    OBVIOUS
  <1> HIDE DEF v
  <1>4. /\ NoneOf(v, OwnedRead) /\ AtMostOne(v, AckRead(q))
        /\ \A r \in Rows : r # q => NoneOf(v, AckRead(r))
    BY <1>3 DEF NoneOf, AtMostOne, OwnedRead, AckRead
  <1>5. \A P : /\ NoneOf(sql', P) <=> NoneOf(sql, P) /\ NoneOf(v, P)
               /\ AtMostOne(sql, P) /\ NoneOf(v, P) => AtMostOne(sql', P)
               /\ NoneOf(sql, P) /\ AtMostOne(v, P) => AtMostOne(sql', P)
    BY <1>1, <1>2, QueueParts
  <1>6. Left' = Left /\ Gone' = Gone
    BY <1>1 DEF Left, Gone, Claimed
  <1>7. task'[q] = "completing" /\ \A r \in Rows : r # q => task'[r] = task[r]
    BY <1>1 DEF TypeOK
  <1>8. OneRead'
    <2>1. /\ AtMostOne(sql', OwnedRead) /\ AtMostOne(answers, OwnedTold)
          /\ NoneOf(sql', OwnedRead) \/ NoneOf(answers, OwnedTold)
          /\ ~ ownedBusy => NoneOf(sql', OwnedRead) /\ NoneOf(answers, OwnedTold)
      BY <1>4, <1>5 DEF Books, OneRead
    <2> QED  BY <2>1, <1>1 DEF OneRead, OwnedRead, OwnedTold
  <1>9. OneAck'
    <2> SUFFICES ASSUME NEW r \in Rows
                 PROVE  /\ AtMostOne(sql', AckRead(r)) /\ AtMostOne(answers, AckTold(r))
                        /\ NoneOf(sql', AckRead(r)) \/ NoneOf(answers, AckTold(r))
                        /\ task'[r] # "completing" => /\ NoneOf(sql', AckRead(r))
                                                      /\ NoneOf(answers, AckTold(r))
      BY <1>1 DEF OneAck, AckRead, AckTold
    <2>1. CASE r = q
      BY <2>1, <1>1, <1>4, <1>5, <1>7 DEF Books, OneAck
    <2>2. CASE r # q
      BY <2>2, <1>4, <1>5, <1>7 DEF Books, OneAck
    <2> QED  BY <2>1, <2>2
  <1>10. OverIsGone' /\ TasksLeft' /\ SnapshotTells'
    <2>1. /\ \A r \in Rows \ Gone : NoneOf(answers, OverTold(r))
          /\ \A r \in Rows \ Left : NoneOf(answers, Lists(r))
          /\ \A r \in Rows \ Gone : task'[r] # "none" => NoneOf(answers, Misses(r))
          /\ \A r \in Rows : task'[r] # "none" => r \in Left
      BY <1>1, <1>7 DEF Books, OverIsGone, TasksLeft, SnapshotTells
    <2>2. answers' = answers
      BY <1>1
    <2> QED  BY <2>1, <2>2, <1>6 DEF OverIsGone, TasksLeft, SnapshotTells, OverTold, Lists, Misses
  <1>11. CompletedIsOver'
    <2>1. completed' = completed /\ completed \subseteq Rows /\ q \notin completed
      BY <1>1 DEF Books, CompletedIsOver, TypeOK
    <2> QED  BY <2>1, <1>6, <1>7 DEF Books, CompletedIsOver
  <1> QED  BY <1>8, <1>9, <1>10, <1>11 DEF Books

LEMMA BooksNext ==
    ASSUME TypeOK, Books, [Next]_vars
    PROVE  Books'
  <1>m. Left \subseteq Left' /\ Gone \subseteq Gone'
    BY StatusMoves
  <1>s. ASSUME UNCHANGED <<sql, answers, ownedBusy, task, completed>> PROVE Books'
    BY <1>s, <1>m, BooksStand
  <1>v. /\ <<>> \in Seq(Statement) /\ \A P : NoneOf(<<>>, P) /\ AtMostOne(<<>>, P)
        /\ sql \in Seq(Statement) /\ sql \o <<>> = sql
    <2>1. sql \in Seq(Statement)
      BY DEF TypeOK
    <2>2. \A P : NoneOf(<<>>, P) /\ AtMostOne(<<>>, P)
      BY QueueOne
    <2> QED  BY <2>1, <2>2, ConcatTypes
  <1>1. CASE WorkerRuns
    BY <1>1, <1>m, BooksWorker
  <1>2. CASE ReadDisenchantCommands
    <2> DEFINE a == IF ownedBusy THEN <<>> ELSE <<[kind |-> "owned"]>>
               b == IF pendingBusy THEN <<>> ELSE <<[kind |-> "pending"]>>
    <2>1. a \in Seq(Statement) /\ b \in Seq(Statement) /\ sql' = sql \o a \o b
      BY <1>2, StatementTypes, ConcatTypes DEF ReadDisenchantCommands
    <2>2. AtMostOne(a, OwnedRead) /\ (ownedBusy => NoneOf(a, OwnedRead))
      BY QueueOne
    <2>3. NoneOf(b, OwnedRead)
      <3>1. [kind |-> "pending"] \notin OwnedRead
        BY DEF OwnedRead
      <3> QED  BY <3>1, QueueOne
    <2>4. \A r \in Rows : NoneOf(a, AckRead(r)) /\ NoneOf(b, AckRead(r))
      <3>1. \A r \in Rows : [kind |-> "owned"] \notin AckRead(r) /\ [kind |-> "pending"] \notin AckRead(r)
        BY DEF AckRead
      <3> QED  BY <3>1, QueueOne
    <2> HIDE DEF a, b
    <2>5. a \o b \in Seq(Statement) /\ sql' = sql \o (a \o b)
      BY <1>v, <2>1
    <2>6. /\ \A r \in Rows : NoneOf(a \o b, AckRead(r))
          /\ AtMostOne(a \o b, OwnedRead) /\ (ownedBusy => NoneOf(a \o b, OwnedRead))
      BY <2>1, <2>2, <2>3, <2>4, QueueParts
    <2>7. UNCHANGED <<status, answers, task, completed>> /\ ownedBusy' = TRUE
      BY <1>2 DEF ReadDisenchantCommands, table
    <2> QED  BY <2>5, <2>6, <2>7, BooksAsk
  <1>3. CASE ClaimingExpires
    BY <1>3, <1>s DEF ClaimingExpires, store
  <1>4. CASE OwnedAnswered
    BY <1>4, BooksOwned
  <1>5. CASE PendingAnswered
    <2>1. /\ answers # <<>> /\ answers' = Tail(answers) /\ Head(answers).kind = "pending"
          /\ UNCHANGED <<status, task, completed, ownedBusy>>
      BY <1>5 DEF PendingAnswered, Answers, table
    <2>2. CASE UNCHANGED sql
      BY <2>1, <2>2, <1>v, BooksHeard
    <2>3. ASSUME NEW r \in Rows, sql' = Append(sql, [kind |-> "claim", row |-> r])
          PROVE  Books'
      <3> DEFINE s == [kind |-> "claim", row |-> r]
      <3>1. s \in Statement /\ s \notin OwnedRead /\ \A q \in Rows : s \notin AckRead(q)
        BY StatementTypes DEF OwnedRead, AckRead
      <3>2. sql' = Append(sql, s)
        BY <2>3
      <3> HIDE DEF s
      <3>3. <<s>> \in Seq(Statement) /\ sql' = sql \o <<s>>
        BY <3>1, <3>2, <1>v
      <3>4. NoneOf(<<s>>, OwnedRead) /\ \A q \in Rows : NoneOf(<<s>>, AckRead(q))
        BY <3>1, QueueOne
      <3> QED  BY <2>1, <3>3, <3>4, BooksHeard
    <2>4. Head(answers).rows \subseteq Rows
      BY <2>1, AnswersHeard, AnswerFields
    <2> QED  BY <1>5, <2>2, <2>3, <2>4 DEF PendingAnswered
  <1>6. CASE ReadFailed
    <2>1. /\ answers # <<>> /\ answers' = Tail(answers) /\ Head(answers).kind = "failed"
          /\ UNCHANGED <<status, task, sql>> /\ completed' \subseteq completed
          /\ UNCHANGED ownedBusy \/ Head(answers).of = "owned"
      BY <1>6 DEF ReadFailed, Answers, table
    <2>2. UNCHANGED ownedBusy \/ Head(answers) \in OwnedTold
      BY <2>1, AnswersHeard DEF OwnedTold
    <2> QED  BY <2>1, <2>2, <1>v, BooksHeard
  <1>7. CASE Acknowledged
    BY <1>7, BooksAck
  <1>8. ASSUME NEW r \in Rows, Completes(r) \/ TakesLoot(r) \/ Casts(r) PROVE Books'
    BY <1>8, <1>s, BooksCompletes DEF TakesLoot, Casts, store, memory
  <1>9. CASE \/ DriveRetiredDisenchant \/ CastEnds \/ WindowCloses \/ BagsChange \/ LogsOut
             \/ LogsIn \/ RowArrives \/ RowEnds \/ AbandonedEnds \/ UNCHANGED vars
    BY <1>9, <1>s DEF DriveRetiredDisenchant, CastEnds, WindowCloses, BagsChange, LogsOut, LogsIn,
       RowArrives, RowEnds, AbandonedEnds, vars, store, memory
  <1>20. CASE Restart
    <2>1. /\ sql' = <<>> /\ answers' = <<>> /\ completed' = {}
          /\ \A r \in Rows : task'[r] = "none"
      BY <1>20 DEF Restart
    <2>2. \A P : /\ NoneOf(sql', P) /\ NoneOf(answers', P)
                 /\ AtMostOne(sql', P) /\ AtMostOne(answers', P)
      BY <2>1, <1>v
    <2> QED
      BY <2>1, <2>2 DEF Books, OneRead, OneAck, OverIsGone, TasksLeft, SnapshotTells, CompletedIsOver,
         OwnedRead, OwnedTold, AckRead, AckTold, OverTold, Lists, Misses
  <1> QED
    BY <1>1, <1>2, <1>3, <1>4, <1>5, <1>6, <1>7, <1>8, <1>9, <1>20 DEF Next

(***************************************************************************)
(* The loot window: a piece has loot exactly while its window is open.     *)
(***************************************************************************)
LootIsOpen ==
    /\ \A i \in Items : item[i] \in {"loot", "looted"} <=> opened = i
    /\ casting # NoItem => opened = NoItem

LEMMA LootNext ==
    ASSUME TypeOK, LootIsOpen, [Next]_vars
    PROVE  LootIsOpen'
  <1> USE DisenchantAssumption
  <1>w. window \in Windows /\ item \in [Items -> Pieces] /\ opened \in Items \cup {NoItem}
    BY DEF TypeOK, Windows
  <1>s. ASSUME UNCHANGED <<item, opened, casting>> PROVE LootIsOpen'
    BY <1>s DEF LootIsOpen
  <1>c. ASSUME NEW w \in Windows, NEW i \in Items, Collect(w, i), item[i] \in {"loot", "looted"},
               UNCHANGED <<opened, casting>>
        PROVE  LootIsOpen'
    BY <1>c, CollectType DEF LootIsOpen
  <1>r. ASSUME NEW r \in Rows, Finishes(WindowOf(r)), Released(WindowOf(r)) PROVE LootIsOpen'
    <2> DEFINE w == WindowOf(r)
    <2>1. w \in Windows /\ w.source \in Items /\ w.source # NoItem
      BY <1>r, WindowOfType DEF Finishes, ReadBack
    <2>2. /\ \A j \in Items : j # w.source => item'[j] = item[j]
          /\ item'[w.source] = IF Owns(w.source) THEN "destroyed" ELSE item[w.source]
          /\ opened' = IF Owns(w.source) THEN NoItem ELSE opened
          /\ UNCHANGED casting
      BY <1>r, <2>1, ReleasedType DEF Released
    <2>3. Owns(w.source) => item[w.source] = "looted"
      BY <1>r DEF Finishes, MayRelease
    <2> HIDE DEF w
    <2>4. CASE Owns(w.source)
      BY <2>1, <2>2, <2>3, <2>4 DEF LootIsOpen
    <2>5. CASE ~ Owns(w.source)
      BY <2>1, <2>2, <2>5 DEF LootIsOpen
    <2> QED  BY <2>4, <2>5
  <1>1. CASE \/ WorkerRuns \/ ReadDisenchantCommands \/ ClaimingExpires \/ OwnedAnswered
             \/ PendingAnswered \/ ReadFailed \/ Acknowledged \/ LogsIn \/ RowArrives \/ RowEnds
             \/ AbandonedEnds \/ UNCHANGED vars
    BY <1>1, <1>s DEF WorkerRuns, ReadDisenchantCommands, ClaimingExpires, OwnedAnswered,
       PendingAnswered, ReadFailed, Acknowledged, LogsIn, RowArrives, RowEnds, AbandonedEnds, vars, game
  <1>8. ASSUME NEW r \in Rows, Completes(r) PROVE LootIsOpen'
    BY <1>8, <1>r DEF Completes
  <1>9. ASSUME NEW r \in Rows, TakesLoot(r) PROVE LootIsOpen'
    <2>1. /\ WindowOf(r) \in Windows /\ WindowOf(r).source \in Items
          /\ item[WindowOf(r).source] \in {"loot", "looted"}
      BY <1>9, WindowOfType DEF TakesLoot, HasLoot
    <2> QED  BY <1>9, <2>1, <1>c DEF TakesLoot
  <1>10. ASSUME NEW r \in Rows, Casts(r) PROVE LootIsOpen'
    BY <1>10 DEF Casts, LootIsOpen
  <1>11. CASE DriveRetiredDisenchant
    <2> DEFINE w == WindowOf(retired)
    <2>1. retired \in Rows /\ w \in Windows
      BY <1>11, WindowOfType DEF DriveRetiredDisenchant, TypeOK
    <2>3. CASE Finishes(w) /\ Released(w)
      BY <2>1, <2>3, <1>r
    <2>4. CASE HasLoot(w.source) /\ Collect(w, w.source) /\ UNCHANGED <<opened, casting>>
      <3>1. w.source \in Items /\ item[w.source] \in {"loot", "looted"}
        BY <2>1, <2>4, WindowFields DEF HasLoot
      <3> HIDE DEF w
      <3> QED  BY <2>1, <2>4, <3>1, <1>c
    <2>5. CASE UNCHANGED game
      BY <2>5, <1>s DEF game
    <2> QED  BY <1>11, <2>3, <2>4, <2>5 DEF DriveRetiredDisenchant
  <1>12. CASE CastEnds
    <2>1. casting \in Items /\ opened = NoItem /\ casting' = NoItem
      BY <1>12 DEF CastEnds, TypeOK, LootIsOpen
    <2>2. \A i \in Items : item[i] \notin {"loot", "looted"}
      BY <2>1 DEF LootIsOpen
    <2>3. CASE Collect(window, casting) /\ Owns(casting) /\ opened' = casting
      BY <2>1, <2>2, <2>3, <1>w, CollectType DEF Owns, LootIsOpen
    <2>4. CASE /\ item' = [item EXCEPT ![casting] = IF @ = "bag" THEN "loot" ELSE @]
               /\ Owns(casting) /\ opened' = casting
      BY <2>1, <2>2, <2>4, <1>w DEF Owns, LootIsOpen
    <2>5. CASE UNCHANGED <<opened, item>>
      BY <2>1, <2>5 DEF LootIsOpen
    <2> QED  BY <1>12, <2>3, <2>4, <2>5 DEF CastEnds
  <1>13. CASE WindowCloses \/ LogsOut
    <2>1. item' = Closed /\ opened' = NoItem
      BY <1>13 DEF WindowCloses, LogsOut
    <2>2. \A i \in Items : item'[i] \notin {"loot", "looted"}
      BY <2>1, ClosedType DEF LootIsOpen
    <2> QED  BY <2>1, <2>2 DEF LootIsOpen
  <1>14. CASE BagsChange
    <2>1. /\ UNCHANGED <<opened, casting>>
          /\ \A i \in Items : item'[i] = item[i] \/ (item[i] = "bag" /\ item'[i] = "away")
      BY <1>14, <1>w DEF BagsChange
    <2> QED  BY <2>1 DEF LootIsOpen
  <1>20. CASE Restart
    <2>1. /\ opened' = NoItem /\ casting' = NoItem
          /\ \A i \in Items : item'[i] \notin {"loot", "looted"}
      BY <1>20, <1>w DEF Restart, HasLoot
    <2> QED  BY <2>1 DEF LootIsOpen
  <1> QED
    BY <1>1, <1>8, <1>9, <1>10, <1>11, <1>12, <1>13, <1>14, <1>20 DEF Next

(***************************************************************************)
(* What each order spends.                                                 *)
(***************************************************************************)

\* The run is through with the row: no claim, no task, no snapshot to revive it.
Done(r) == r \in Gone /\ task[r] = "none" /\ (r \in completed \/ NoneOf(answers, Lists(r)))

Through == {r \in Rows : Done(r)}

LEMMA DoneStays ==
    ASSUME TypeOK, Books, [Next]_vars, NEW r \in Rows, Done(r)
    PROVE  Done(r)'
  <1>m. r \in Gone' /\ r \in Gone /\ task[r] = "none" /\ r \notin Claimed
    BY StatusMoves DEF Done, Gone
  <1>l. Lists(r)' = Lists(r)
    BY DEF Lists
  <1>s. ASSUME UNCHANGED <<answers, task, completed>> PROVE Done(r)'
    BY <1>s, <1>m, <1>l DEF Done, NoneOf
  <1>h. ASSUME answers # <<>>, answers' = Tail(answers), NoneOf(answers, Lists(r))
        PROVE  NoneOf(answers', Lists(r))
    BY <1>h, AnswersHeard
  <1>1. CASE WorkerRuns
    <2>1. /\ sql # <<>> /\ UNCHANGED <<task, completed>>
          /\ answers' \in {answers \o Read(Head(sql)), answers \o Failed(Head(sql))}
      BY <1>1 DEF WorkerRuns, memory
    <2>2. Head(sql) \in Statement /\ answers \in Seq(Answer)
      BY <2>1, ConcatTypes DEF TypeOK
    <2>3. PICK v \in {Read(Head(sql)), Failed(Head(sql))} : answers' = answers \o v
      BY <2>1
    <2>4. v \in Seq(Answer) /\ NoneOf(v, Lists(r))
      BY <2>2, <1>m, WorkerTells
    <2>5. NoneOf(answers, Lists(r)) => NoneOf(answers', Lists(r))
      BY <2>2, <2>3, <2>4, QueueParts
    <2> QED  BY <2>1, <2>5, <1>m, <1>l DEF Done
  <1>2. CASE ReadDisenchantCommands \/ ClaimingExpires
    BY <1>2, <1>s DEF ReadDisenchantCommands, ClaimingExpires, store
  <1>4. CASE OwnedAnswered
    <2>1. NoneOf(answers', Lists(r))
      BY <1>4, BooksOwned
    <2>2. r \notin Head(answers).rows \ completed
      <3>1. CASE NoneOf(answers, Lists(r))
        <4>1. answers # <<>> /\ answers' = Tail(answers) /\ Head(answers).kind = "owned"
          BY <1>4 DEF OwnedAnswered, Answers
        <4>2. Head(answers) \in Answer /\ Head(answers) \notin Lists(r)
          BY <3>1, <4>1, AnswersHeard
        <4> QED  BY <4>1, <4>2 DEF Lists
      <3> QED  BY <3>1 DEF Done
    <2>3. task'[r] = "none"
      BY <1>4, <1>m, <2>2 DEF OwnedAnswered
    <2> QED  BY <2>1, <2>3, <1>m, <1>l DEF Done
  <1>5. CASE PendingAnswered
    BY <1>5, <1>m, <1>l, <1>h DEF PendingAnswered, Answers, Done
  <1>6. CASE ReadFailed
    <2>1. answers # <<>> /\ answers' = Tail(answers) /\ UNCHANGED task
          /\ Head(answers).kind = "failed"
      BY <1>6 DEF ReadFailed, Answers
    <2>2. CASE UNCHANGED completed
      BY <2>1, <2>2, <1>m, <1>l, <1>h DEF Done
    <2>3. CASE Head(answers).of = "owned"
      <3>1. Head(answers) \in Answer
            /\ \A P : AtMostOne(answers, P) /\ Head(answers) \in P => NoneOf(answers', P)
        BY <2>1, AnswersHeard
      <3>2. Head(answers) \in OwnedTold
        BY <2>1, <2>3, <3>1 DEF OwnedTold
      <3>3. NoneOf(answers', OwnedTold) /\ Lists(r) \subseteq OwnedTold
        BY <3>1, <3>2 DEF Books, OneRead, Lists, OwnedTold
      <3>4. NoneOf(answers', Lists(r))
        BY <3>3, FewerOf
      <3> QED  BY <2>1, <3>4, <1>m, <1>l DEF Done
    <2> QED  BY <1>6, <2>2, <2>3 DEF ReadFailed
  <1>7. CASE Acknowledged
    <2> DEFINE q == Head(answers).row
    <2>1. answers # <<>> /\ answers' = Tail(answers)
      BY <1>7 DEF Acknowledged, Answers
    <2>2. task[q] = "completing" /\ q \in Rows
      BY <1>7, AckIsTrue DEF Acknowledged
    <2>3. /\ completed \subseteq completed'
          /\ task' \in {task, [task EXCEPT ![q] = "none"], [task EXCEPT ![q] = "driving"]}
      BY <1>7 DEF Acknowledged, Over, NotOver
    <2>4. task'[r] = "none"
      BY <2>2, <2>3, <1>m DEF TypeOK
    <2> HIDE DEF q
    <2> QED  BY <2>1, <2>3, <2>4, <1>m, <1>l, <1>h DEF Done
  <1>8. ASSUME NEW q \in Rows, Completes(q) PROVE Done(r)'
    <2>1. task[q] = "driving" /\ task' = [task EXCEPT ![q] = "completing"]
          /\ UNCHANGED <<answers, completed>>
      BY <1>8 DEF Completes, Driven
    <2>2. task'[r] = "none"
      BY <2>1, <1>m DEF TypeOK
    <2> QED  BY <2>1, <2>2, <1>m, <1>l DEF Done, NoneOf
  <1>9. ASSUME NEW q \in Rows, TakesLoot(q) \/ Casts(q) PROVE Done(r)'
    BY <1>9, <1>s DEF TakesLoot, Casts, store, memory
  <1>10. CASE \/ DriveRetiredDisenchant \/ CastEnds \/ WindowCloses \/ BagsChange \/ LogsOut
              \/ LogsIn \/ RowArrives \/ RowEnds \/ AbandonedEnds \/ UNCHANGED vars
    BY <1>10, <1>s DEF DriveRetiredDisenchant, CastEnds, WindowCloses, BagsChange, LogsOut, LogsIn,
       RowArrives, RowEnds, AbandonedEnds, vars, store, memory
  <1>20. CASE Restart
    <2>1. answers' = <<>> /\ task'[r] = "none"
      BY <1>20 DEF Restart
    <2>2. NoneOf(answers', Lists(r))
      BY <2>1, QueueOne
    <2> QED  BY <2>1, <2>2, <1>m, <1>l DEF Done
  <1> QED
    BY <1>1, <1>2, <1>4, <1>5, <1>6, <1>7, <1>8, <1>9, <1>10, <1>20 DEF Next

\* Pieces that are gone, and the one that is picked.
Spendings == Destroyed \cup ({window.source} \ {NoItem})

\* Each of them is the one piece of a row that left the queue: the picked one
\* of the row of the window, the others of rows the run is through with.
Spends(g) ==
    /\ g \in [Spendings -> Left]
    /\ \A i, j \in Spendings : g[i] = g[j] => i = j
    /\ window.source # NoItem => g[window.source] = window.row
    /\ \A i \in Spendings : i # window.source => g[i] \in Through
Spent == \E g \in [Spendings -> Left] : Spends(g)

OneTask == \A r, q \in Rows : task[r] # "none" /\ task[q] # "none" => r = q
OpenedIsSource == opened # NoItem => opened = window.source
CastIsSource == casting # NoItem => casting = window.source \/ ~ Owns(casting)
CompletingIsPaid ==
    \A r \in Rows : task[r] = "completing" =>
        window.row = r /\ window.source # NoItem /\ item[window.source] = "destroyed"
RetiredIsDone ==
    retired # NoRow => retired \in Through /\ window.row = retired /\ window.source # NoItem

Single == OneTask /\ OpenedIsSource /\ CastIsSource /\ CompletingIsPaid /\ RetiredIsDone /\ Spent

LEMMA SpentKept ==
    ASSUME Spent, Left \subseteq Left', Through \subseteq Through',
           Spendings' \subseteq Spendings,
           \/ window'.source = window.source /\ window'.row = window.row
           \/ window'.source = NoItem /\ (window.source # NoItem => window.row \in Through')
    PROVE  Spent'
  <1>1. PICK g \in [Spendings -> Left] : Spends(g)
    BY DEF Spent
  <1> DEFINE h == [i \in Spendings' |-> g[i]]
  <1>2. h \in [Spendings' -> Left'] /\ \A i \in Spendings' : h[i] = g[i] /\ g[i] \in Left
    OBVIOUS
  <1> HIDE DEF h
  <1>3. \A i, j \in Spendings' : h[i] = h[j] => i = j
    BY <1>1, <1>2 DEF Spends
  <1>4. \A i \in Spendings' : i # NoItem /\ i \in Spendings
    BY DisenchantAssumption DEF Spendings, Destroyed
  <1>5. window'.source # NoItem => h[window'.source] = window'.row
    <2> SUFFICES ASSUME window'.source # NoItem PROVE h[window'.source] = window'.row
      OBVIOUS
    <2>1. window'.source \in Spendings'
      BY DEF Spendings
    <2> QED  BY <1>1, <1>2, <2>1 DEF Spends
  <1>6. \A i \in Spendings' : i # window'.source => h[i] \in Through'
    <2> SUFFICES ASSUME NEW i \in Spendings', i # window'.source PROVE h[i] \in Through'
      OBVIOUS
    <2>1. CASE i # window.source
      BY <1>1, <1>2, <1>4, <2>1 DEF Spends
    <2>2. CASE i = window.source
      BY <1>1, <1>2, <1>4, <2>2 DEF Spends
    <2> QED  BY <2>1, <2>2
  <1> QED  BY <1>2, <1>3, <1>5, <1>6 DEF Spent, Spends
LEMMA ThroughStays ==
    ASSUME TypeOK, Books, [Next]_vars
    PROVE  Left \subseteq Left' /\ Through \subseteq Through'
  BY StatusMoves, DoneStays DEF Through

\* A step that moves neither tasks nor window: pieces may leave the bags.
LEMMA SingleStands ==
    ASSUME TypeOK, Books, [Next]_vars, Single,
           UNCHANGED <<window, task, retired, casting, opened>>,
           \A i \in Items : item'[i] = item[i] \/ (item[i] = "bag" /\ item'[i] = "away")
    PROVE  Single'
  <1>1. Left \subseteq Left' /\ Through \subseteq Through'
    BY ThroughStays
  <1>2. Spendings' = Spendings
    BY DEF Spendings, Destroyed
  <1>3. Spent'
    BY <1>1, <1>2, SpentKept DEF Single
  <1>4. OneTask' /\ OpenedIsSource'
    BY DEF Single, OneTask, OpenedIsSource
  <1>5. CastIsSource'
    BY DEF Single, CastIsSource, Owns, TypeOK
  <1>6. CompletingIsPaid'
    <2>1. window.source \in Items \cup {NoItem}
      BY WindowFields DEF TypeOK, Windows
    <2> QED  BY <2>1 DEF Single, CompletingIsPaid
  <1>7. RetiredIsDone'
    BY <1>1 DEF Single, RetiredIsDone
  <1> QED  BY <1>3, <1>4, <1>5, <1>6, <1>7 DEF Single

\* What is collected is loot of the picked piece.
LEMMA SingleCollects ==
    ASSUME TypeOK, Books, LootIsOpen, [Next]_vars, Single,
           NEW i \in Items, Collect(window, i), window.source = i,
           item[i] \in {"bag", "loot", "looted"},
           UNCHANGED <<task, retired>>,
           casting' \in {casting, NoItem}, opened' \in {opened, i}
    PROVE  Single'
  <1>0. window \in Windows /\ item \in [Items -> Pieces] /\ NoItem \notin Items
    BY DisenchantAssumption DEF TypeOK, Windows
  <1>1. Left \subseteq Left' /\ Through \subseteq Through'
    BY ThroughStays
  <1>2. /\ window'.row = window.row /\ window'.source = window.source
        /\ \A j \in Items : j # i => item'[j] = item[j]
        /\ item'[i] \in {"loot", "looted"}
    BY <1>0, CollectType
  <1>3. Spendings' = Spendings
    BY <1>2 DEF Spendings, Destroyed
  <1>4. Spent'
    BY <1>1, <1>2, <1>3, SpentKept DEF Single
  <1>5. OneTask' /\ OpenedIsSource'
    BY <1>2 DEF Single, OneTask, OpenedIsSource
  <1>6. CastIsSource'
    <2>1. casting \in Items \cup {NoItem}
      BY DEF TypeOK
    <2> QED  BY <1>2, <2>1 DEF Single, CastIsSource, Owns
  <1>7. CompletingIsPaid'
    BY <1>0, <1>2 DEF Single, CompletingIsPaid
  <1>8. RetiredIsDone'
    BY <1>1, <1>2 DEF Single, RetiredIsDone
  <1> QED  BY <1>4, <1>5, <1>6, <1>7, <1>8 DEF Single

LEMMA SingleOwned ==
    ASSUME TypeOK, Books, [Next]_vars, Single, OwnedAnswered, ~ rivals'
    PROVE  Single'
  <1> DEFINE owned == Head(answers).rows \ completed
             gone == {r \in Rows : task[r] = "driving" /\ r \notin owned}
  <1>0. NoItem \notin Items /\ NoRow \notin Rows /\ window \in Windows
    BY DisenchantAssumption DEF TypeOK, Windows
  <1>1. Left \subseteq Left' /\ Through \subseteq Through'
    BY ThroughStays
  <1>2. /\ Retire(gone)
        /\ task' = [r \in Rows |-> IF r \in gone THEN "none"
                                   ELSE IF r \in owned /\ task[r] = "none" THEN "driving"
                                   ELSE task[r]]
        /\ UNCHANGED <<status, item, casting, opened>>
        /\ ~ (\E r, q \in Rows : r # q /\ task'[r] # "none" /\ task'[q] # "none")
    BY DEF OwnedAnswered, table, game
  <1>3. /\ \A r \in Rows : NoneOf(answers', Lists(r))
        /\ \A r \in Rows : task[r] # "none" /\ r \notin Head(answers).rows => r \in Gone
    BY BooksOwned
  <1>4. gone \subseteq Through'
    <2> SUFFICES ASSUME NEW r \in gone PROVE r \in Through'
      OBVIOUS
    <2>1. task[r] = "driving" /\ r \in Rows /\ r \notin owned /\ task'[r] = "none"
      BY <1>2
    <2>2. r \notin completed
      BY <2>1 DEF Books, CompletedIsOver
    <2>3. r \in Gone
      BY <2>1, <2>2, <1>3
    <2>4. r \in Gone'
      BY <2>3, StatusMoves
    <2>5. NoneOf(answers', Lists(r)')
      BY <2>1, <1>3 DEF Lists
    <2> QED  BY <2>1, <2>4, <2>5 DEF Done, Through
  <1>5. \A r \in Rows : task'[r] = "completing" => task[r] = "completing"
    BY <1>2
  <1> HIDE DEF owned, gone
  <1>6. \/ UNCHANGED window
        \/ window' = NoWindow /\ window.source = NoItem
    BY <1>2 DEF Retire
  <1>7. window'.source = window.source /\ (window.source # NoItem => window' = window)
    BY <1>6, NoWindowFields
  <1>8. Spent'
    <2>1. Spendings' = Spendings
      BY <1>2, <1>7 DEF Spendings, Destroyed
    <2>2. \/ window'.source = window.source /\ window'.row = window.row
          \/ window'.source = NoItem /\ window.source = NoItem
      BY <1>6, NoWindowFields
    <2> QED  BY <1>1, <2>1, <2>2, SpentKept DEF Single
  <1>9. OneTask'
    BY <1>2 DEF OneTask
  <1>10. OpenedIsSource' /\ CastIsSource'
    BY <1>2, <1>7 DEF Single, OpenedIsSource, CastIsSource, Owns
  <1>11. CompletingIsPaid'
    BY <1>2, <1>5, <1>7 DEF Single, CompletingIsPaid
  <1>12. RetiredIsDone'
    <2>1. CASE UNCHANGED retired
      BY <2>1, <1>1, <1>7 DEF Single, RetiredIsDone
    <2>2. CASE window.row \in gone /\ window.source # NoItem /\ retired' = window.row
      BY <2>2, <1>4, <1>7 DEF RetiredIsDone
    <2> QED  BY <1>2, <2>1, <2>2 DEF Retire
  <1> QED  BY <1>8, <1>9, <1>10, <1>11, <1>12 DEF Single

LEMMA SingleAck ==
    ASSUME TypeOK, Books, LootIsOpen, [Next]_vars, Single, Acknowledged
    PROVE  Single'
  <1> DEFINE q == Head(answers).row
  <1>0. NoItem \notin Items /\ NoRow \notin Rows /\ window \in Windows
    BY DisenchantAssumption DEF TypeOK, Windows
  <1>1. Left \subseteq Left' /\ Through \subseteq Through'
    BY ThroughStays
  <1>2. q \in Rows /\ task[q] = "completing" /\ (Head(answers).over => q \in Gone)
    BY AckIsTrue DEF Acknowledged
  <1>3. /\ UNCHANGED <<retired, item, casting, opened, status>>
        /\ (Head(answers).over /\ Over(q)) \/ NotOver(q)
    BY <1>2 DEF Acknowledged, game, table
  <1>4. window.row = q /\ window.source # NoItem /\ item[window.source] = "destroyed"
    BY <1>2 DEF Single, CompletingIsPaid
  <1> HIDE DEF q
  <1>5. \A r \in Rows : task[r] # "none" => r = q
    BY <1>2 DEF Single, OneTask
  <1>6. \A r \in Rows : r # q => task'[r] = "none"
    BY <1>2, <1>3, <1>5 DEF Over, NotOver, TypeOK
  <1>7. task'[q] \in {"none", "driving"}
    BY <1>2, <1>3 DEF Over, NotOver, TypeOK
  <1>8. OneTask' /\ CompletingIsPaid'
    BY <1>6, <1>7 DEF OneTask, CompletingIsPaid
  <1>9. retired = NoRow
    <2>1. retired # NoRow => retired = q /\ task[retired] = "none"
      BY <1>4 DEF Single, RetiredIsDone, Done, Through
    <2> QED  BY <2>1, <1>2
  <1>10. RetiredIsDone'
    BY <1>3, <1>9 DEF RetiredIsDone
  <1>11. opened = NoItem
    BY <1>0, <1>4 DEF LootIsOpen, Single, OpenedIsSource, TypeOK
  <1>12. casting # NoItem => ~ Owns(casting)
    BY <1>4 DEF Single, CastIsSource, Owns
  <1>13. OpenedIsSource' /\ CastIsSource'
    BY <1>3, <1>11, <1>12 DEF OpenedIsSource, CastIsSource, Owns
  <1>14. Spent'
    <2>1. CASE Head(answers).over /\ Over(q)
      <3>1. window' = NoWindow /\ q \in completed' /\ task'[q] = "none"
        BY <2>1, <1>2, <1>4 DEF Over, Forgotten, TypeOK
      <3>2. q \in Gone'
        BY <2>1, <1>2, StatusMoves
      <3>3. q \in Through'
        BY <1>2, <3>1, <3>2 DEF Done, Through
      <3>4. Spendings' \subseteq Spendings /\ window'.source = NoItem
        BY <3>1, <1>3, NoWindowFields DEF Spendings, Destroyed
      <3> QED  BY <1>1, <1>4, <3>3, <3>4, SpentKept DEF Single
    <2>2. CASE NotOver(q)
      <3>1. window' = window /\ Spendings' = Spendings
        BY <2>2, <1>3 DEF NotOver, Spendings, Destroyed
      <3> QED  BY <1>1, <3>1, SpentKept DEF Single
    <2> QED  BY <1>3, <2>1, <2>2
  <1> QED  BY <1>8, <1>10, <1>13, <1>14 DEF Single

\* The window of a row that is driven is free, or its own.
LEMMA DrivenWindow ==
    ASSUME TypeOK, ProofHasRow, NoProofIsOrphaned, Single, NEW r \in Rows, Driven(r)
    PROVE  window.source # NoItem => window.row = r /\ WindowOf(r) = window
  <1>1. ASSUME window.source # NoItem PROVE window.row = r
    <2>1. window.row \in Rows /\ task[window.row] # "none"
      BY <1>1, DisenchantAssumption DEF ProofHasRow, NoProofIsOrphaned, Driven
    <2> QED  BY <2>1 DEF Single, OneTask, Driven
  <1> QED  BY <1>1 DEF WindowOf

LEMMA SingleCompletes ==
    ASSUME TypeOK, Books, LootIsOpen, ObservedIsOpen, [Next]_vars, Single,
           NEW r \in Rows, Completes(r)
    PROVE  Single'
  <1>0. NoItem \notin Items /\ NoRow \notin Rows /\ window \in Windows /\ item \in [Items -> Pieces]
    BY DisenchantAssumption DEF TypeOK, Windows
  <1>1. Left \subseteq Left' /\ Through \subseteq Through'
    BY ThroughStays
  <1>2. WindowOf(r) = window /\ window.row = r /\ window.source \in Items /\ window.observed
    <2>1. WindowOf(r).source # NoItem /\ WindowOf(r).observed
      BY DEF Completes, Finishes, ReadBack
    <2> QED  BY <2>1, WindowOfType
  <1>3. /\ Released(window) /\ Finishes(window)
        /\ task' = [task EXCEPT ![r] = "completing"] /\ task[r] = "driving" /\ retired = NoRow
        /\ UNCHANGED <<window, retired>>
    BY <1>2 DEF Completes, Driven
  <1>4. /\ \A j \in Items : j # window.source => item'[j] = item[j]
        /\ item'[window.source] = IF Owns(window.source) THEN "destroyed" ELSE item[window.source]
        /\ opened' = IF Owns(window.source) THEN NoItem ELSE opened
        /\ UNCHANGED casting
    BY <1>0, <1>2, <1>3, ReleasedType DEF Released
  <1>5. item'[window.source] = "destroyed"
    BY <1>2, <1>4 DEF ObservedIsOpen, Owns
  <1>6. Spendings' = Spendings
    BY <1>0, <1>2, <1>3, <1>4, <1>5 DEF Spendings, Destroyed
  <1>7. Spent'
    BY <1>1, <1>3, <1>6, SpentKept DEF Single
  <1>8. OneTask' /\ CompletingIsPaid'
    <2>1. \A q \in Rows : q # r => task[q] = "none" /\ task'[q] = task[q]
      BY <1>3 DEF Single, OneTask, TypeOK
    <2> QED  BY <2>1, <1>0, <1>2, <1>3, <1>5 DEF OneTask, CompletingIsPaid
  <1>9. OpenedIsSource' /\ CastIsSource'
    <2>1. casting \in Items \cup {NoItem}
      BY DEF TypeOK
    <2> QED  BY <2>1, <1>0, <1>2, <1>3, <1>4, <1>5 DEF Single, OpenedIsSource, CastIsSource, Owns
  <1>10. RetiredIsDone'
    BY <1>3 DEF RetiredIsDone
  <1> QED  BY <1>7, <1>8, <1>9, <1>10 DEF Single

\* The piece that is picked is a new one, or the one picked before.
LEMMA SingleCasts ==
    ASSUME TypeOK, Books, LootIsOpen, ProofHasRow, NoProofIsOrphaned, [Next]_vars, Single,
           NEW r \in Rows, Casts(r)
    PROVE  Single'
  <1>0. NoItem \notin Items /\ NoRow \notin Rows /\ window \in Windows /\ item \in [Items -> Pieces]
    BY DisenchantAssumption DEF TypeOK, Windows
  <1>1. Left \subseteq Left' /\ Through \subseteq Through'
    BY ThroughStays
  <1>2. PICK i \in Items : /\ MayDisenchantItem(i)
                           /\ WindowOf(r).source = NoItem \/ i = WindowOf(r).source
                           /\ window' = [WindowOf(r) EXCEPT !.source = i]
                           /\ casting' \in {i, NoItem}
    BY DEF Casts
  <1>3. /\ Driven(r) /\ casting = NoItem /\ opened = NoItem
        /\ UNCHANGED <<task, retired, completed, item, opened, answers, status>>
    BY DEF Casts, memory, store, table
  <1>4. window'.source = i /\ window'.row = r
    <2> DEFINE w == WindowOf(r)
    <2>1. w \in Windows /\ w.row = r /\ window' = [w EXCEPT !.source = i]
      BY <1>2, WindowOfType
    <2> HIDE DEF w
    <2> QED  BY <2>1, WindowFields
  <1>5. window.source # NoItem => window.source = i /\ window.row = r
    BY <1>2, <1>3, DrivenWindow
  <1>6. item[i] \in {"bag", "loot", "looted"}
    BY <1>2 DEF MayDisenchantItem, Owns
  <1>7. task[r] = "driving" /\ retired = NoRow
    BY <1>3 DEF Driven
  <1>8. Spent'
    <2>1. CASE window.source # NoItem
      <3>1. Spendings' = Spendings
        BY <1>3, <1>4, <1>5, <2>1 DEF Spendings, Destroyed
      <3> QED  BY <1>1, <1>4, <1>5, <2>1, <3>1, SpentKept DEF Single
    <2>2. CASE window.source = NoItem
      <3>1. PICK g \in [Spendings -> Left] : Spends(g)
        BY DEF Single, Spent
      <3>2. Spendings = Destroyed /\ Spendings' = Destroyed \cup {i} /\ i \notin Destroyed
        BY <1>0, <1>3, <1>4, <1>6, <2>2 DEF Spendings, Destroyed
      <3>3. r \in Left /\ r \notin Through
        BY <1>7 DEF Books, TasksLeft, Through, Done
      <3> DEFINE h == [j \in Spendings' |-> IF j = i THEN r ELSE g[j]]
      <3>4. /\ h \in [Spendings' -> Left'] /\ h[i] = r
            /\ \A j \in Spendings : j # i /\ h[j] = g[j] /\ j # NoItem
        BY <1>0, <1>1, <3>2, <3>3 DEF Destroyed
      <3> HIDE DEF h
      <3>5. \A j \in Spendings : h[j] \in Through
        BY <2>2, <3>1, <3>4 DEF Spends
      <3>6. \A j, k \in Spendings' : h[j] = h[k] => j = k
        BY <3>1, <3>2, <3>3, <3>4, <3>5 DEF Spends
      <3>7. \A j \in Spendings' : j # i => h[j] \in Through'
        BY <1>1, <3>2, <3>5
      <3> QED  BY <1>4, <3>4, <3>6, <3>7 DEF Spent, Spends
    <2> QED  BY <2>1, <2>2
  <1>9. OneTask'
    BY <1>3 DEF Single, OneTask
  <1>10. OpenedIsSource' /\ CastIsSource'
    BY <1>2, <1>3, <1>4 DEF OpenedIsSource, CastIsSource
  <1>11. CompletingIsPaid'
    <2>1. \A q \in Rows : task[q] # "completing"
      BY <1>7 DEF Single, OneTask
    <2> QED  BY <2>1, <1>3 DEF CompletingIsPaid
  <1>12. RetiredIsDone'
    BY <1>3, <1>7 DEF RetiredIsDone
  <1> QED  BY <1>8, <1>9, <1>10, <1>11, <1>12 DEF Single

LEMMA SingleRetired ==
    ASSUME TypeOK, Books, LootIsOpen, ObservedIsOpen, [Next]_vars, Single, DriveRetiredDisenchant
    PROVE  Single'
  <1>0. NoItem \notin Items /\ NoRow \notin Rows /\ window \in Windows /\ item \in [Items -> Pieces]
        /\ retired \in Rows
    BY DisenchantAssumption DEF TypeOK, Windows, DriveRetiredDisenchant
  <1>1. Left \subseteq Left' /\ Through \subseteq Through'
    BY ThroughStays
  <1>2. /\ retired \in Through /\ window.row = retired /\ window.source \in Items
        /\ WindowOf(retired) = window
    BY <1>0, WindowFields DEF Single, RetiredIsDone, DriveRetiredDisenchant, WindowOf
  <1>3. UNCHANGED task
    BY DEF DriveRetiredDisenchant
  <1>4. \A q \in Rows : task[q] # "completing"
    <2> SUFFICES ASSUME NEW q \in Rows, task[q] = "completing" PROVE FALSE
      OBVIOUS
    <2>1. window.row = q
      BY DEF Single, CompletingIsPaid
    <2> QED  BY <2>1, <1>2 DEF Through, Done
  <1>5. OneTask' /\ CompletingIsPaid'
    BY <1>3, <1>4 DEF Single, OneTask, CompletingIsPaid
  <1>d. ASSUME window' = Forgotten(retired), retired' = NoRow,
               \A j \in Items : j # window.source => item'[j] = item[j],
               opened' = NoItem,
               casting' # NoItem => casting' \in Items /\ item'[casting'] \notin {"bag", "loot", "looted"}
        PROVE  Single'
    <2>1. window' = NoWindow /\ window'.source = NoItem
      BY <1>d, <1>2, NoWindowFields DEF Forgotten
    <2>2. Spendings' \subseteq Spendings
      BY <1>0, <1>d, <1>2, <2>1 DEF Spendings, Destroyed
    <2>3. Spent'
      BY <1>1, <1>2, <2>1, <2>2, SpentKept DEF Single
    <2>4. OpenedIsSource' /\ CastIsSource' /\ RetiredIsDone'
      BY <1>d DEF OpenedIsSource, CastIsSource, RetiredIsDone, Owns
    <2> QED  BY <1>5, <2>3, <2>4 DEF Single
  <1>6. CASE Finishes(window) /\ Released(window) /\ window' = Forgotten(retired) /\ retired' = NoRow
    <2>1. /\ \A j \in Items : j # window.source => item'[j] = item[j]
          /\ item'[window.source] = IF Owns(window.source) THEN "destroyed" ELSE item[window.source]
          /\ opened' = IF Owns(window.source) THEN NoItem ELSE opened
          /\ UNCHANGED casting
      BY <1>0, <1>2, <1>6, ReleasedType DEF Released
    <2>2. window.observed
      BY <1>6 DEF Finishes, ReadBack
    <2>3. item'[window.source] = "destroyed"
      BY <1>2, <2>1, <2>2 DEF ObservedIsOpen, Owns
    <2>4. opened' = NoItem
      BY <1>0, <1>2, <2>1 DEF Single, OpenedIsSource, LootIsOpen, Owns
    <2>5. casting # NoItem => casting \in Items /\ (casting = window.source \/ ~ Owns(casting))
      BY DEF Single, CastIsSource, TypeOK
    <2>6. casting' # NoItem => casting' \in Items /\ item'[casting'] \notin {"bag", "loot", "looted"}
      BY <1>2, <2>1, <2>3, <2>5 DEF Owns
    <2> QED  BY <1>6, <1>d, <2>1, <2>4, <2>6
  <1>7. CASE /\ HasLoot(window.source) /\ Collect(window, window.source)
             /\ UNCHANGED <<casting, opened, retired>>
    BY <1>2, <1>3, <1>7, SingleCollects DEF HasLoot
  <1>8. CASE /\ ~ HasLoot(window.source) /\ casting = NoItem /\ window' = Forgotten(retired)
             /\ retired' = NoRow /\ UNCHANGED game
    <2>1. opened = NoItem
      BY <1>0, <1>2, <1>8 DEF Single, OpenedIsSource, LootIsOpen, HasLoot
    <2> QED  BY <1>8, <1>d, <2>1 DEF game
  <1> QED  BY <1>2, <1>6, <1>7, <1>8 DEF DriveRetiredDisenchant

LEMMA SingleCastEnds ==
    ASSUME TypeOK, Books, LootIsOpen, [Next]_vars, Single, CastEnds
    PROVE  Single'
  <1>0. NoItem \notin Items /\ window \in Windows /\ item \in [Items -> Pieces] /\ casting \in Items
    BY DisenchantAssumption DEF TypeOK, Windows, CastEnds
  <1>1. Left \subseteq Left' /\ Through \subseteq Through'
    BY ThroughStays
  <1>2. UNCHANGED <<task, retired>> /\ casting' = NoItem
    BY DEF CastEnds, memory
  <1>3. CASE Owns(casting) /\ opened' = casting /\ Collect(window, casting)
    <2>1. window.source = casting /\ item[casting] \in {"bag", "loot", "looted"}
      BY <1>0, <1>3 DEF Single, CastIsSource, Owns
    <2> QED  BY <1>0, <1>2, <1>3, <2>1, SingleCollects
  <1>4. CASE UNCHANGED <<opened, item, dust, window>>
    <2>1. Spendings' = Spendings
      BY <1>4 DEF Spendings, Destroyed
    <2>2. Spent'
      BY <1>1, <1>4, <2>1, SpentKept DEF Single
    <2>3. OneTask' /\ CompletingIsPaid' /\ OpenedIsSource' /\ CastIsSource'
      BY <1>2, <1>4 DEF Single, OneTask, CompletingIsPaid, OpenedIsSource, CastIsSource
    <2>4. RetiredIsDone'
      BY <1>1, <1>2, <1>4 DEF Single, RetiredIsDone
    <2> QED  BY <2>2, <2>3, <2>4 DEF Single
  <1>5. Owns(casting) => window.source = casting
    BY <1>0 DEF Single, CastIsSource
  <1> QED  BY <1>3, <1>4, <1>5 DEF CastEnds

LEMMA SingleCloses ==
    ASSUME TypeOK, Books, LootIsOpen, [Next]_vars, Single, WindowCloses \/ LogsOut
    PROVE  Single'
  <1>0. NoItem \notin Items /\ window \in Windows /\ item \in [Items -> Pieces]
        /\ opened \in Items \cup {NoItem} /\ casting \in Items \cup {NoItem}
    BY DisenchantAssumption DEF TypeOK, Windows
  <1>1. Left \subseteq Left' /\ Through \subseteq Through'
    BY ThroughStays
  <1>2. /\ UNCHANGED <<window, task, retired>> /\ casting' \in {casting, NoItem} /\ opened' = NoItem
        /\ item' = Closed
    BY DEF WindowCloses, LogsOut, memory
  <1>3. \A i \in Items : item'[i] = item[i] \/ (opened = i /\ item'[i] = "destroyed")
    BY <1>2, ClosedType
  <1>4. Spendings' \subseteq Spendings
    BY <1>0, <1>2, <1>3 DEF Single, OpenedIsSource, Spendings, Destroyed
  <1>5. Spent'
    BY <1>1, <1>2, <1>4, SpentKept DEF Single
  <1>6. OneTask' /\ OpenedIsSource' /\ RetiredIsDone'
    BY <1>1, <1>2 DEF Single, OneTask, OpenedIsSource, RetiredIsDone
  <1>7. CastIsSource'
    BY <1>0, <1>2, <1>3 DEF Single, CastIsSource, Owns
  <1>8. CompletingIsPaid'
    <2>1. window.source \in Items \cup {NoItem}
      BY <1>0, WindowFields
    <2> QED  BY <2>1, <1>2, <1>3 DEF Single, CompletingIsPaid
  <1> QED  BY <1>5, <1>6, <1>7, <1>8 DEF Single

LEMMA SingleRestart ==
    ASSUME TypeOK, [Next]_vars, Single, Restart
    PROVE  Single'
  <1>0. NoItem \notin Items /\ item \in [Items -> Pieces] /\ status \in [Rows -> Statuses]
    BY DisenchantAssumption DEF TypeOK
  <1>1. /\ answers' = <<>> /\ window' = NoWindow /\ retired' = NoRow /\ opened' = NoItem
        /\ casting' = NoItem /\ \A r \in Rows : task'[r] = "none"
        /\ \A r \in Rows : status'[r] = IF status[r] = "mine" THEN "abandoned" ELSE status[r]
        /\ \A i \in Items : item'[i] = "destroyed" => item[i] = "destroyed"
    BY <1>0 DEF Restart, HasLoot
  <1>2. Left' = Left /\ Gone' = Left
    BY <1>1 DEF Left, Gone, Claimed
  <1>3. \A P : NoneOf(answers', P)
    BY <1>1, QueueOne
  <1>4. Through' = Left
    <2>1. \A r \in Rows : NoneOf(answers', Lists(r)')
      BY <1>3
    <2> QED  BY <2>1, <1>1, <1>2 DEF Through, Done, Left
  <1>5. Through \subseteq Left
    BY DEF Through, Done, Gone
  <1>6. window.source # NoItem => window.row \in Left
    <2>1. PICK g \in [Spendings -> Left] : Spends(g)
      BY DEF Single, Spent
    <2>2. window.source # NoItem => window.source \in Spendings
      BY DEF Spendings
    <2> QED  BY <2>1, <2>2 DEF Spends
  <1>7. Spendings' \subseteq Spendings /\ window'.source = NoItem
    BY <1>1, NoWindowFields DEF Spendings, Destroyed
  <1>8. Spent'
    BY <1>2, <1>4, <1>5, <1>6, <1>7, SpentKept DEF Single
  <1>9. OneTask' /\ OpenedIsSource' /\ CastIsSource' /\ CompletingIsPaid' /\ RetiredIsDone'
    BY <1>1 DEF OneTask, OpenedIsSource, CastIsSource, CompletingIsPaid, RetiredIsDone
  <1> QED  BY <1>8, <1>9 DEF Single

LEMMA RivalsStay ==
    ASSUME [Next]_vars, rivals
    PROVE  rivals'
  BY DEF Next, vars, WorkerRuns, ReadDisenchantCommands, ClaimingExpires, OwnedAnswered, PendingAnswered,
     ReadFailed, Acknowledged, Completes, TakesLoot, Casts, DriveRetiredDisenchant, CastEnds,
     WindowCloses, BagsChange, LogsOut, LogsIn, RowArrives, RowEnds, AbandonedEnds, Restart

SpendingInv ==
    /\ TypeOK /\ ProofHasRow /\ NoProofIsOrphaned /\ ObservedIsOpen /\ Books /\ LootIsOpen
    /\ rivals \/ Single

LEMMA SingleNext ==
    ASSUME SpendingInv, [Next]_vars, ~ rivals'
    PROVE  Single'
  <1>1. /\ TypeOK /\ ProofHasRow /\ NoProofIsOrphaned /\ ObservedIsOpen /\ Books /\ LootIsOpen
        /\ Single
    BY RivalsStay DEF SpendingInv
  <1>2. CASE \/ WorkerRuns \/ ReadDisenchantCommands \/ ClaimingExpires \/ PendingAnswered
             \/ ReadFailed \/ LogsIn \/ RowArrives \/ RowEnds \/ AbandonedEnds \/ UNCHANGED vars
    <2>1. UNCHANGED <<window, task, retired, casting, opened, item>>
      BY <1>2 DEF WorkerRuns, ReadDisenchantCommands, ClaimingExpires, PendingAnswered, ReadFailed,
         LogsIn, RowArrives, RowEnds, AbandonedEnds, vars, game, memory
    <2> QED  BY <1>1, <2>1, SingleStands
  <1>3. CASE BagsChange
    <2>1. /\ UNCHANGED <<window, task, retired, casting, opened>>
          /\ \A i \in Items : item'[i] = item[i] \/ (item[i] = "bag" /\ item'[i] = "away")
      BY <1>1, <1>3 DEF BagsChange, memory, TypeOK
    <2> QED  BY <1>1, <2>1, SingleStands
  <1>4. CASE OwnedAnswered
    BY <1>1, <1>4, SingleOwned
  <1>5. CASE Acknowledged
    BY <1>1, <1>5, SingleAck
  <1>6. ASSUME NEW r \in Rows, Completes(r) PROVE Single'
    BY <1>1, <1>6, SingleCompletes
  <1>7. ASSUME NEW r \in Rows, TakesLoot(r) PROVE Single'
    <2>1. /\ WindowOf(r) = window /\ window.source \in Items
          /\ item[window.source] \in {"loot", "looted"}
      BY <1>1, <1>7, WindowOfType DEF TakesLoot, HasLoot
    <2>2. Collect(window, window.source) /\ UNCHANGED <<task, retired, casting, opened>>
      BY <1>7, <2>1 DEF TakesLoot, memory
    <2> QED  BY <1>1, <2>1, <2>2, SingleCollects
  <1>8. ASSUME NEW r \in Rows, Casts(r) PROVE Single'
    BY <1>1, <1>8, SingleCasts
  <1>9. CASE DriveRetiredDisenchant
    BY <1>1, <1>9, SingleRetired
  <1>10. CASE CastEnds
    BY <1>1, <1>10, SingleCastEnds
  <1>11. CASE WindowCloses \/ LogsOut
    BY <1>1, <1>11, SingleCloses
  <1>12. CASE Restart
    BY <1>1, <1>12, SingleRestart
  <1> QED
    BY <1>2, <1>3, <1>4, <1>5, <1>6, <1>7, <1>8, <1>9, <1>10, <1>11, <1>12 DEF Next

LEMMA SingleInit == Init => LootIsOpen /\ Single
  <1> SUFFICES ASSUME Init PROVE LootIsOpen /\ Single
    OBVIOUS
  <1>0. /\ NoItem \notin Items /\ window.source = NoItem /\ casting = NoItem /\ opened = NoItem
        /\ retired = NoRow /\ \A r \in Rows : task[r] = "none"
        /\ \A i \in Items : item[i] = "bag"
    BY NoWindowFields, DisenchantAssumption DEF Init
  <1>1. LootIsOpen
    BY <1>0 DEF LootIsOpen
  <1>2. Spendings = {}
    BY <1>0 DEF Spendings, Destroyed
  <1> DEFINE g == [i \in Spendings |-> NoRow]
  <1>3. g \in [Spendings -> Left] /\ Spends(g)
    BY <1>0, <1>2 DEF Spends
  <1>4. Spent
    BY <1>3 DEF Spent
  <1>5. OneTask /\ OpenedIsSource /\ CastIsSource /\ CompletingIsPaid /\ RetiredIsDone
    BY <1>0 DEF OneTask, OpenedIsSource, CastIsSource, CompletingIsPaid, RetiredIsDone
  <1> QED  BY <1>1, <1>4, <1>5 DEF Single

LEMMA SpendingCounts ==
    ASSUME SpendingInv
    PROVE  OnePiecePerOrder
  <1>1. CASE rivals
    BY <1>1 DEF OnePiecePerOrder
  <1>2. CASE Single
    <2>1. PICK g \in [Spendings -> Left] : Spends(g)
      BY <1>2 DEF Single, Spent
    <2>2. IsFiniteSet(Left)
      BY FS_Subset, DisenchantAssumption DEF Left
    <2> DEFINE h == [i \in Destroyed |-> g[i]]
    <2>3. Destroyed \subseteq Spendings
      BY DEF Spendings
    <2>4. h \in [Destroyed -> Left] /\ \A i \in Destroyed : h[i] = g[i]
      BY <2>3
    <2>5. \A i, j \in Destroyed : h[i] = h[j] => i = j
      BY <2>1, <2>3, <2>4 DEF Spends
    <2> HIDE DEF h
    <2>6. Cardinality(Destroyed) <= Cardinality(Left)
      BY <2>2, <2>4, <2>5, InjectionCounts
    <2> QED  BY <2>6 DEF OnePiecePerOrder, Left
  <1> QED  BY <1>1, <1>2 DEF SpendingInv

(* No order costs the character more than one piece: as long as no two rows  *)
(* were driven together, the pieces destroyed are never more than the rows   *)
(* that left the queue, through refused casts, full bags, windows closed     *)
(* early, lost acknowledgements, cancelled rows and restarts (16971-16998,   *)
(* 17019-17090).  Every destroyed or picked piece is charged to a row of its *)
(* own, and a row the run is through with is never taken up again: the       *)
(* snapshots and acknowledgements still on their way cannot revive it.       *)
THEOREM OneOrderCostsOnePiece == Spec => []OnePiecePerOrder
  <1>1. Init => SpendingInv
    BY TypeInit, OrphanInit, EarnedInit, BooksInit, SingleInit DEF SpendingInv
  <1>2. SpendingInv /\ [Next]_vars => SpendingInv'
    <2> SUFFICES ASSUME SpendingInv, [Next]_vars PROVE SpendingInv'
      OBVIOUS
    <2>1. TypeOK' /\ ProofHasRow' /\ NoProofIsOrphaned' /\ ObservedIsOpen' /\ Books' /\ LootIsOpen'
      BY TypeNext, OrphanNext, ObservedNext, BooksNext, LootNext DEF SpendingInv
    <2>2. rivals' \/ Single'
      BY SingleNext
    <2> QED  BY <2>1, <2>2 DEF SpendingInv
  <1>3. SpendingInv => OnePiecePerOrder
    BY SpendingCounts
  <1> QED  BY <1>1, <1>2, <1>3, PTL DEF Spec

=============================================================================
