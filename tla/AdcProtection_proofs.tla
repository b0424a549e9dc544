------------------------ MODULE AdcProtection_proofs ------------------------
(***************************************************************************)
(* The guarded write, for any plans, any number of overlapping requests, of *)
(* administrators' changes and of refused, lost and unanswered commands.    *)
(***************************************************************************)
EXTENDS AdcProtection, TLAPS

\* An administrator's object is owned by a change that was made.
Config(c) ==
  DOMAIN c \subseteq Objects /\ \A o \in DOMAIN c : c[o].owner \in Writes \cup 0..outside

Steps == {"idle", "profiles", "targets", "policies", "sent", "audit", "ended"}
ReqStates == [at : Steps, plan : Plans \cup {None}, approval : Approves \cup {None},
              preview : Preflights \cup {None}, src : Nat]

TypeOK ==
  /\ Config(running) /\ Config(saved)
  /\ source \in Nat
  /\ writable \in BOOLEAN
  /\ approvals \in [Approves -> Approvals \cup {None}]
  /\ previews \in [Preflights -> Previews \cup {None}]
  /\ audit \subseteq Writes
  /\ req \in [Requests -> ReqStates]
  /\ call \in [Writes -> Calls \cup {None}]
  /\ outside \in 0..MaxOutside
  /\ faults \in Nat

\* Which endpoint reaches which step, with the plan it was given.
RouteOf(q, r) ==
  /\ r.plan \in Plans
  /\ r.at = "policies" => q \in Rollbacks
  /\ r.at \in {"profiles", "targets"} => q \notin Rollbacks
  /\ r.at \in {"sent", "audit"} => q \in Writes
  /\ q \in Preflights => r.approval \in Approves
Routes == \A q \in Requests : req[q].at # "idle" => RouteOf(q, req[q])

\* A row is inserted by the last step of its request.
RowsOnce ==
  /\ \A a \in Approves : approvals[a] # None => req[a].at = "ended"
  /\ \A v \in Preflights : previews[v] # None => req[v].at = "ended"

\* An apply request carries what it was checked against.
CheckOf(r) ==
  /\ r.approval \in Approves /\ approvals[r.approval] # None
  /\ r.plan = approvals[r.approval].plan
  /\ r.preview \in Preflights /\ previews[r.preview] # None
  /\ previews[r.preview].status = "ready-for-apply"
  /\ previews[r.preview].approval = r.approval
Checked == \A q \in Applies : req[q].at # "idle" => CheckOf(req[q])

\* A batch is asked for after the last check, and audited after it was applied.
Asked ==
  /\ \A q \in Writes : call[q] # None => req[q].at \in {"sent", "audit", "ended"}
  /\ \A q \in Applies : InBatch(q, "run") => call[q].src = approvals[req[q].approval].fp.src
  /\ \A q \in Writes : (q \in audit \/ req[q].at = "audit") => InBatch(q, "applied")

\* What is left of a creation from its n-th command on.
Rest(p, n) == [i \in 1..(Size(p) + 2 - n) |-> CreateBatch(p)[n + i - 1]]

\* What a batch still has to do: a removal never adds, and undoing follows the order.
TodoOf(q, p, c) ==
  /\ c.at = "run" => c.clean /\ ~ c.lost
  /\ q \in Rollbacks =>
       /\ c.at # "cleanup"
       /\ \A i \in DOMAIN c.todo : c.todo[i] \in {Rm(k) : k \in Parts(p)} \cup {Save}
       /\ c.at = "run" => c.todo # <<>>
  /\ q \in Applies =>
       /\ c.at = "run" => \E n \in 1..(Size(p) + 1) : c.todo = Rest(p, n)
       /\ c.at = "cleanup" => \E n \in Parts(p) : c.todo = Removals(n)
       /\ c.at = "applied" => ~ c.lost
Todo == \A q \in Writes : call[q] # None => TodoOf(q, req[q].plan, call[q])

\* The parts a creation has made and not undone, as far as it knows.
MadeOf(p, c) ==
  CASE c.at = "run" -> 1..(Size(p) + 1 - Len(c.todo))
    [] c.at = "cleanup" -> 1..Len(c.todo)
    [] c.at = "applied" -> Parts(p)
    [] OTHER -> {}
Made(q) == MadeOf(req[q].plan, call[q])

\* Whatever a request owns is a part it has made, and refers to what was approved.
OwnedIsMade ==
  \A o \in DOMAIN running : \A q \in Writes : running[o].owner = q =>
    /\ q \in Applies /\ call[q] # None
    /\ \E k \in Parts(req[q].plan) :
         /\ o = Obj(req[q].plan, k)
         /\ running[o].ref = Ref(req[q].plan, approvals[req[q].approval].fp.src, k)
         /\ k \in Made(q) \/ ~ call[q].clean

\* Somebody has removed, or may have removed, what others made under this name.
Disturbed(o) ==
  \E w \in Writes : /\ call[w] # None
                    /\ o \in ObjectsOf(req[w].plan)
                    /\ w \in Rollbacks \/ call[w].lost

Has(c, o, q) == o \in DOMAIN c /\ c[o].owner = q

\* What was made is there, and saved when the batch is done, unless it was disturbed.
MadeStands ==
  \A q \in Applies : call[q] # None /\ ~ call[q].lost =>
    \A k \in Made(q) :
      LET o == Obj(req[q].plan, k)
      IN  \/ Has(running, o, q) /\ (InBatch(q, "applied") => Has(saved, o, q))
          \/ Disturbed(o)

\* What was there before a call began belongs to somebody who does not make it again.
BeforeIsOlder ==
  \A q \in Applies : call[q] # None => \A e \in call[q].before :
    /\ e[2] # q
    /\ e[2] \notin Writes => e[2] <= outside
    /\ e[2] \in Applies => call[e[2]] # None
    /\ e[2] \in Applies /\ InBatch(e[2], "run") =>
         \A k \in Parts(req[e[2]].plan) : e[1] = Obj(req[e[2]].plan, k) => k \in Made(e[2])

\* So what a call made, and may have to undo, is nothing that was there before it.
MadeIsNew ==
  \A q \in Applies : call[q] # None /\ ~ call[q].lost =>
    \A k \in Made(q) : \A e \in call[q].before :
      e[1] = Obj(req[q].plan, k) => ~ Has(running, e[1], e[2])

IInv ==
  /\ TypeOK /\ Routes /\ RowsOnce /\ Checked /\ Asked /\ Todo
  /\ OwnedIsMade /\ MadeStands /\ BeforeIsOlder /\ MadeIsNew

USE RequestAssumption

Commands == [op : {"add", "rm", "save"}, k : 0..3]

-----------------------------------------------------------------------------
(* Names, parts and batches *)

LEMMA SeqTyped ==
  ASSUME NEW S, NEW n \in Nat, NEW f \in [1..n -> S]
  PROVE  f \in Seq(S) /\ Len(f) = n
  OBVIOUS

LEMMA SizeTyped == \A p : Size(p) \in {1, 3} /\ Parts(p) = 1..Size(p)
  BY DEF Size, Parts

\* The kind of an object tells the part of a plan it is.
LEMMA KindIsPart ==
  ASSUME NEW p, NEW r, NEW k \in 1..3, NEW j \in 1..3, Obj(p, k) = Obj(r, j)
  PROVE  k = j
<1>1. k \in {1, 2, 3} /\ j \in {1, 2, 3}
  OBVIOUS
<1>2. \A x, y, z : Obj(x, 1) # Obj(y, 2) /\ Obj(x, 1) # Obj(y, 3) /\ Obj(x, 2) # Obj(y, 3)
  BY DEF Obj
<1> QED BY <1>1, <1>2

LEMMA PartTyped ==
  ASSUME NEW p \in Plans, NEW k \in Parts(p)
  PROVE  k \in 1..3 /\ Obj(p, k) \in ObjectsOf(p) /\ Obj(p, k) \in Objects
<1>1. k \in 1..3
  BY SizeTyped
<1>2. Obj(p, k) \in ObjectsOf(p)
  BY DEF ObjectsOf
<1> QED BY <1>1, <1>2 DEF Objects

LEMMA CreateBatchIs ==
  ASSUME NEW p
  PROVE  /\ Len(CreateBatch(p)) = Size(p) + 1
         /\ \A k \in Parts(p) : CreateBatch(p)[k] = Add(k)
         /\ CreateBatch(p)[Size(p) + 1] = Save
         /\ CreateBatch(p) \in Seq(Commands)
<1>1. Size(p) \in Nat /\ Size(p) <= 3
  BY SizeTyped
<1>2. \A i \in 1..Size(p) : Add(i) \in Commands
  BY <1>1 DEF Add, Commands
<1>3. Additions(Size(p)) \in [1..Size(p) -> Commands]
  BY <1>2 DEF Additions
<1>4. Additions(Size(p)) \in Seq(Commands) /\ Len(Additions(Size(p))) = Size(p)
  BY <1>1, <1>3, SeqTyped
<1>5. Save \in Commands
  BY DEF Save, Commands
<1>6. \A k \in 1..Size(p) : Additions(Size(p))[k] = Add(k)
  BY DEF Additions
<1> QED BY <1>1, <1>4, <1>5, <1>6 DEF CreateBatch, Parts

LEMMA RestIs ==
  ASSUME NEW p, NEW n \in 1..(Size(p) + 1)
  PROVE  /\ Len(Rest(p, n)) = Size(p) + 2 - n
         /\ n \in Parts(p) => Head(Rest(p, n)) = Add(n) /\ Tail(Rest(p, n)) = Rest(p, n + 1)
         /\ n \notin Parts(p) => Head(Rest(p, n)) = Save /\ Len(Rest(p, n)) = 1
         /\ Rest(p, n) \in Seq(Commands)
         /\ Rest(p, 1) = CreateBatch(p)
<1> DEFINE m == Size(p) + 2 - n
<1>1. Size(p) \in Nat /\ m \in Nat /\ m >= 1 /\ Parts(p) = 1..Size(p)
  BY SizeTyped
<1>2. \A i \in 1..m : n + i - 1 \in 1..(Size(p) + 1)
  BY <1>1
<1>3. \A j \in 1..(Size(p) + 1) : CreateBatch(p)[j] \in Commands
  BY <1>1, CreateBatchIs
<1>4. Rest(p, n) \in [1..m -> Commands]
  BY <1>2, <1>3 DEF Rest
<1>5. Rest(p, n) \in Seq(Commands) /\ Len(Rest(p, n)) = m
  BY <1>1, <1>4, SeqTyped
<1>6. Head(Rest(p, n)) = CreateBatch(p)[n]
  BY <1>1, <1>5 DEF Rest
<1>7. n \in Parts(p) => Tail(Rest(p, n)) = Rest(p, n + 1)
  BY SMTT(30), <1>1, <1>5 DEF Rest
<1>8. Rest(p, 1) = CreateBatch(p)
  BY <1>1, CreateBatchIs DEF Rest
<1>9. n \notin Parts(p) => n = Size(p) + 1
  BY <1>1
<1> QED BY <1>1, <1>5, <1>6, <1>7, <1>8, <1>9, CreateBatchIs

LEMMA RemovalsAre ==
  ASSUME NEW n \in 0..3
  PROVE  /\ Removals(n) \in Seq(Commands)
         /\ Len(Removals(n)) = n
         /\ n = 0 <=> Removals(n) = <<>>
         /\ n > 0 => Head(Removals(n)) = Rm(n) /\ Tail(Removals(n)) = Removals(n - 1)
         /\ \A i \in 1..n : Removals(n)[i].op = "rm" /\ Removals(n)[i].k \in 1..n
<1>1. \A i \in 1..n : Rm(n + 1 - i) \in Commands
  BY DEF Rm, Commands
<1>2. Removals(n) \in [1..n -> Commands] /\ n \in Nat
  BY <1>1 DEF Removals
<1>2a. Removals(n) \in Seq(Commands) /\ Len(Removals(n)) = n
  BY <1>2, SeqTyped
<1>3. n > 0 => Head(Removals(n)) = Rm(n) /\ Tail(Removals(n)) = Removals(n - 1)
  BY <1>2a DEF Removals
<1>4. \A i \in 1..n : Removals(n)[i].op = "rm" /\ Removals(n)[i].k \in 1..n
  BY DEF Removals, Rm
<1> QED BY <1>2a, <1>3, <1>4
LEMMA MadeIsPart ==
  ASSUME TypeOK, Asked, Routes, Todo, NEW q \in Applies, call[q] # None
  PROVE  /\ req[q].plan \in Plans
         /\ Made(q) \subseteq Parts(req[q].plan)
         /\ Made(q) \subseteq 1..3
<1>1. q \in Writes /\ q \in Requests /\ call[q] \in Calls
  BY DEF TypeOK, Writes, Requests
<1>2. req[q].plan \in Plans
  BY <1>1 DEF Asked, Routes, RouteOf
<1>3. Size(req[q].plan) \in {1, 3} /\ Parts(req[q].plan) = 1..Size(req[q].plan)
  BY SizeTyped
<1>4. CASE call[q].at = "run"
  <2>1. PICK n \in 1..(Size(req[q].plan) + 1) : call[q].todo = Rest(req[q].plan, n)
    BY <1>1, <1>4 DEF Todo, TodoOf
  <2>2. Len(call[q].todo) = Size(req[q].plan) + 2 - n
    BY <2>1, RestIs
  <2>3. Made(q) = 1..(Size(req[q].plan) + 1 - Len(call[q].todo))
    BY <1>4 DEF Made, MadeOf
  <2> QED BY <1>2, <1>3, <2>1, <2>2, <2>3
<1>5. CASE call[q].at = "cleanup"
  <2>1. PICK n \in Parts(req[q].plan) : call[q].todo = Removals(n)
    BY <1>1, <1>5 DEF Todo, TodoOf
  <2>2. Len(call[q].todo) = n
    BY <1>3, <2>1, RemovalsAre
  <2>3. Made(q) = 1..Len(call[q].todo)
    BY <1>5 DEF Made, MadeOf
  <2> QED BY <1>2, <1>3, <2>1, <2>2, <2>3
<1> QED BY <1>2, <1>3, <1>4, <1>5 DEF Made, MadeOf

-----------------------------------------------------------------------------
(* What an administrator does *)

LEMMA NamesDiffer ==
  ASSUME NEW p, NEW k \in 1..3, NEW s
  PROVE  Obj(p, k) # SigObj(s)
<1>1. k \in {1, 2, 3}
  OBVIOUS
<1> QED BY <1>1 DEF Obj, SigObj

LEMMA OutsideKeeps ==
  ASSUME IInv, OutsideChange
  PROVE  IInv'
<1> USE DEF IInv
<1>1. /\ UNCHANGED <<writable, approvals, previews, audit, expired, req, call, faults>>
      /\ outside \in Nat /\ outside' = outside + 1 /\ outside' \in 0..MaxOutside
  <2>1. outside \in 0..MaxOutside /\ outside < MaxOutside /\ outside' = outside + 1
    BY DEF OutsideChange, TypeOK
  <2> QED BY <2>1 DEF OutsideChange, tables
<1>1a. saved' = saved
  <2>1. \A k : Add(k).op # "save"
    BY DEF Add
  <2> QED BY <2>1 DEF OutsideChange, Execute
<1>2. /\ outside' \notin Writes
      /\ \A o \in DOMAIN running : running[o].owner # outside'
  BY <1>1 DEF Requests, TypeOK, Config
<1>3. \/ \E o \in Objects \ DOMAIN running : \E r :
             running' = With(running, o, [owner |-> outside', ref |-> r])
      \/ \E s \in Signatures : running' = Without(running, SigObj(s))
      \/ running' = running
  BY PartTyped DEF OutsideChange, Execute, Possible, Add
<1>4. /\ DOMAIN running' \subseteq Objects
      /\ \A o \in DOMAIN running' : \/ o \in DOMAIN running /\ running'[o] = running[o]
                                    \/ running'[o].owner = outside'
      /\ \A p : \A k \in 1..3 : Obj(p, k) \in DOMAIN running =>
           Obj(p, k) \in DOMAIN running' /\ running'[Obj(p, k)] = running[Obj(p, k)]
  <2>1. DOMAIN running \subseteq Objects
    BY DEF TypeOK, Config
  <2>2. CASE \E o \in Objects \ DOMAIN running : \E r :
               running' = With(running, o, [owner |-> outside', ref |-> r])
    <3>0. PICK o \in Objects \ DOMAIN running :
                 \E r : running' = With(running, o, [owner |-> outside', ref |-> r])
      BY <2>2
    <3>1. PICK r : running' = With(running, o, [owner |-> outside', ref |-> r])
      BY <3>0
    <3>2. DOMAIN running' = DOMAIN running \cup {o} /\ running'[o].owner = outside'
          /\ \A x \in DOMAIN running : running'[x] = running[x]
      BY <3>1 DEF With
    <3> QED BY <2>1, <3>2
  <2>3. CASE \E s \in Signatures : running' = Without(running, SigObj(s))
    <3>1. PICK s \in Signatures : running' = Without(running, SigObj(s))
      BY <2>3
    <3>2. DOMAIN running' = DOMAIN running \ {SigObj(s)}
          /\ \A x \in DOMAIN running' : running'[x] = running[x]
      BY <3>1 DEF Without
    <3> QED BY <2>1, <3>2, NamesDiffer
  <2> QED BY <1>3, <2>1, <2>2, <2>3
<1>5. source' \in Nat
  <2>1. source \in Nat
    BY DEF TypeOK
  <2>2. source' = source \/ source' = source + 1
    BY DEF OutsideChange, Execute
  <2> QED BY <2>1, <2>2
<1>6. TypeOK'
  BY <1>1, <1>1a, <1>4, <1>5 DEF TypeOK, Config
<1>7. Routes' /\ RowsOnce' /\ Checked' /\ Asked' /\ Todo'
  BY <1>1 DEF Routes, RowsOnce, Checked, CheckOf, Asked, Todo, InBatch
<1>8. \A q \in Writes : Made(q)' = Made(q)
  BY <1>1 DEF Made
<1>9. OwnedIsMade'
  BY <1>1, <1>2, <1>4, <1>8 DEF OwnedIsMade
<1>10. MadeStands'
  <2> SUFFICES ASSUME NEW q \in Applies, call[q] # None, ~ call[q].lost, NEW k \in Made(q)
               PROVE  \/ /\ Has(running', Obj(req[q].plan, k), q)
                         /\ InBatch(q, "applied") => Has(saved, Obj(req[q].plan, k), q)
                      \/ Disturbed(Obj(req[q].plan, k))
    BY <1>1, <1>1a, <1>8 DEF MadeStands, Disturbed, InBatch, Writes
  <2>1. k \in 1..3
    BY MadeIsPart
  <2>2. Has(running, Obj(req[q].plan, k), q) => Has(running', Obj(req[q].plan, k), q)
    BY <1>4, <2>1 DEF Has
  <2> QED BY <2>2 DEF MadeStands
<1>11. BeforeIsOlder'
  <2> SUFFICES ASSUME NEW q \in Applies, call[q] # None, NEW e \in call[q].before
               PROVE  /\ e[2] # q
                      /\ e[2] \notin Writes => e[2] <= outside'
                      /\ e[2] \in Applies => call[e[2]] # None
                      /\ e[2] \in Applies /\ InBatch(e[2], "run") =>
                           \A k \in Parts(req[e[2]].plan) :
                             e[1] = Obj(req[e[2]].plan, k) => k \in Made(e[2])
    BY <1>1, <1>8 DEF BeforeIsOlder, InBatch, Writes
  <2>1. call[q] \in Calls
    BY DEF TypeOK, Writes
  <2>2. e[2] \in Owners
    BY <2>1 DEF Calls
  <2>3. e[2] \notin Writes => e[2] \in Nat
    BY <2>2 DEF Owners
  <2>4. e[2] \notin Writes => e[2] <= outside
    BY DEF BeforeIsOlder
  <2>5. e[2] \notin Writes => e[2] <= outside'
    BY <1>1, <2>3, <2>4
  <2> QED BY <2>5 DEF BeforeIsOlder
<1>12. MadeIsNew'
  BY <1>1, <1>2, <1>4, <1>8 DEF MadeIsNew, BeforeIsOlder, Has, Writes
<1> QED BY <1>6, <1>7, <1>9, <1>10, <1>11, <1>12

-----------------------------------------------------------------------------
(* What a command of a batch does *)

Creates(q, k) ==
  /\ q \in Applies /\ call[q].at = "run"
  /\ k \notin Made(q)
  /\ Obj(req[q].plan, k) \notin DOMAIN running
  /\ running' = With(running, Obj(req[q].plan, k),
                     [owner |-> q, ref |-> Ref(req[q].plan, call[q].src, k)])
  /\ saved' = saved

Deletes(q, k) ==
  /\ running' = Without(running, Obj(req[q].plan, k))
  /\ saved' = saved

\* How a batch goes on, whatever becomes of its command.
GoesOn(q, c) ==
  LET p == req[q].plan
  IN  /\ c.before \subseteq call[q].before
      /\ call[q].lost => c.lost
      /\ c.clean => call[q].clean
      /\ q \in Applies =>
           /\ c.at = "run" => call[q].at = "run" /\ Made(q) \subseteq MadeOf(p, c)
           /\ c.at = "applied" => saved' = running /\ running' = running
           /\ \A k \in Made(q) :
                k \in MadeOf(p, c) \/ ~ c.clean \/ Obj(p, k) \notin DOMAIN running'
           /\ ~ c.lost => \A k \in MadeOf(p, c) : k \in Made(q) \/ Creates(q, k)

HasEffect(q, c) ==
  LET p == req[q].plan
  IN  \/ running' = running /\ saved' \in {saved, running}
      \/ \E k \in Parts(p) : Creates(q, k) /\ (k \in MadeOf(p, c) \/ ~ c.clean)
      \/ \E k \in Parts(p) : Deletes(q, k) /\ (q \in Applies => k \in Made(q) \ MadeOf(p, c))

LEMMA StepKeeps ==
  ASSUME IInv, NEW q \in Writes, call[q] # None, NEW c \in Calls,
         UNCHANGED <<req, approvals, outside>>,
         call' = [call EXCEPT ![q] = c], GoesOn(q, c), HasEffect(q, c)
  PROVE  OwnedIsMade' /\ MadeStands' /\ BeforeIsOlder' /\ MadeIsNew'
<1> USE DEF IInv
<1> DEFINE p == req[q].plan
           Adds(k) == Creates(q, k) /\ (k \in MadeOf(p, c) \/ ~ c.clean)
           Drops(k) == Deletes(q, k) /\ (q \in Applies => k \in Made(q) \ MadeOf(p, c))
<1>1. /\ c # None /\ call'[q] = c
      /\ \A w \in Writes : w # q => call'[w] = call[w] /\ Made(w)' = Made(w)
      /\ \A w \in Writes : call[w] # None => call'[w] # None
      /\ Made(q)' = MadeOf(p, c)
      /\ \A w \in Writes : w \in Requests
      /\ Applies \subseteq Writes /\ (q \notin Applies => q \in Rollbacks)
  <2>1. c # None
    BY NoneAssumption
  <2>2. call \in [Writes -> Calls \cup {None}]
    BY DEF TypeOK
  <2>3. call'[q] = c /\ \A w \in Writes : w # q => call'[w] = call[w]
    BY <2>2
  <2> QED BY <2>1, <2>3 DEF Made, Writes, Requests
\* The three effects, object by object.
<1>2. ASSUME NEW o, o \in DOMAIN running', ~ (o \in DOMAIN running /\ running'[o] = running[o])
      PROVE  \E k \in Parts(p) :
               /\ Adds(k) /\ o = Obj(p, k)
               /\ running'[o] = [owner |-> q, ref |-> Ref(p, call[q].src, k)]
  <2>1. \A k : ~ Deletes(q, k)
    BY <1>2 DEF Deletes, Without
  <2>2. PICK k \in Parts(p) : Adds(k)
    BY <1>2, <2>1 DEF HasEffect
  <2>3. o = Obj(p, k) /\ running'[o] = [owner |-> q, ref |-> Ref(p, call[q].src, k)]
    BY <1>2, <2>2 DEF Creates, With
  <2> QED BY <2>2, <2>3
<1>3. ASSUME NEW o, o \in DOMAIN running,
             ~ (o \in DOMAIN running' /\ running'[o] = running[o])
      PROVE  \E k \in Parts(p) : Drops(k) /\ o = Obj(p, k)
  <2>1. \A k : ~ Creates(q, k)
    BY <1>3 DEF Creates, With
  <2>2. PICK k \in Parts(p) : Drops(k)
    BY <1>3, <2>1 DEF HasEffect
  <2>3. o = Obj(p, k)
    BY <1>3, <2>2 DEF Deletes, Without
  <2> QED BY <2>2, <2>3
<1>4. saved' = saved \/ (saved' = running /\ running' = running)
  <2>1. \A k : Creates(q, k) \/ Deletes(q, k) => saved' = saved
    BY DEF Creates, Deletes
  <2> QED BY <2>1 DEF HasEffect
<1>5. \A o : Disturbed(o) => Disturbed(o)'
  BY <1>1 DEF Disturbed, GoesOn
<1>6. q \in Applies => p \in Plans /\ Made(q) \subseteq Parts(p)
  BY MadeIsPart
<1> HIDE DEF p
<1>7. OwnedIsMade'
  <2> SUFFICES ASSUME NEW o \in DOMAIN running', NEW w \in Writes, running'[o].owner = w
               PROVE  /\ w \in Applies /\ call'[w] # None
                      /\ \E k \in Parts(req[w].plan) :
                           /\ o = Obj(req[w].plan, k)
                           /\ running'[o].ref =
                                Ref(req[w].plan, approvals[req[w].approval].fp.src, k)
                           /\ k \in Made(w)' \/ ~ call'[w].clean
    BY DEF OwnedIsMade
  <2>1. CASE o \in DOMAIN running /\ running'[o] = running[o]
    <3>1. /\ w \in Applies /\ call[w] # None
          /\ \E k \in Parts(req[w].plan) :
               /\ o = Obj(req[w].plan, k)
               /\ running[o].ref = Ref(req[w].plan, approvals[req[w].approval].fp.src, k)
               /\ k \in Made(w) \/ ~ call[w].clean
      BY <2>1 DEF OwnedIsMade
    <3>2. CASE w # q
      BY <1>1, <2>1, <3>1, <3>2
    <3>3. CASE w = q
      BY <1>1, <2>1, <3>1, <3>3 DEF GoesOn, p
    <3> QED BY <3>2, <3>3
  <2>2. CASE ~ (o \in DOMAIN running /\ running'[o] = running[o])
    <3>1. PICK k \in Parts(p) : /\ Adds(k) /\ o = Obj(p, k)
                                 /\ running'[o] = [owner |-> q, ref |-> Ref(p, call[q].src, k)]
      BY <1>2, <2>2
    <3>2. w = q /\ q \in Applies /\ InBatch(q, "run")
      BY <3>1 DEF Creates, InBatch
    <3>3. call[q].src = approvals[req[q].approval].fp.src
      BY <3>2 DEF Asked
    <3> QED BY <1>1, <3>1, <3>2, <3>3 DEF p
  <2> QED BY <2>1, <2>2
<1>8. MadeStands'
  <2> SUFFICES ASSUME NEW w \in Applies, call'[w] # None, ~ call'[w].lost, NEW k \in Made(w)'
               PROVE  \/ /\ Has(running', Obj(req[w].plan, k), w)
                         /\ call'[w].at = "applied" => Has(saved', Obj(req[w].plan, k), w)
                      \/ Disturbed(Obj(req[w].plan, k))'
    BY DEF MadeStands, InBatch
  <2> DEFINE o == Obj(req[w].plan, k)
  <2>1. CASE w # q
    <3>1. /\ call[w] # None /\ ~ call[w].lost /\ k \in Made(w)
          /\ call'[w].at = call[w].at
      BY <1>1, <2>1
    <3>2. CASE Disturbed(o)
      BY <1>5, <3>2
    <3>3. CASE Has(running, o, w) /\ (call[w].at = "applied" => Has(saved, o, w))
      <4>1. CASE Has(running', o, w)
        BY <1>4, <3>1, <3>3, <4>1
      <4>2. CASE ~ Has(running', o, w)
        <5>1. o \in DOMAIN running /\ ~ (o \in DOMAIN running' /\ running'[o] = running[o])
          BY <3>3, <4>2 DEF Has
        <5>2. PICK j \in Parts(p) : Drops(j) /\ o = Obj(p, j)
          BY <1>3, <5>1
        <5>3. CASE q \in Rollbacks
          BY <1>1, <5>2, <5>3 DEF Disturbed, ObjectsOf, p
        <5>4. CASE q \in Applies /\ c.lost
          BY <1>1, <5>2, <5>4 DEF Disturbed, ObjectsOf, p
        <5>5. CASE q \in Applies /\ ~ c.lost
          <6>1. ~ call[q].lost /\ j \in Made(q)
            BY <5>2, <5>5 DEF GoesOn
          <6>2. Has(running, o, q) \/ Disturbed(o)
            BY <5>2, <5>5, <6>1 DEF MadeStands, p
          <6> QED BY <1>5, <2>1, <3>3, <6>2 DEF Has
        <5> QED BY <1>1, <5>3, <5>4, <5>5
      <4> QED BY <4>1, <4>2
    <3> QED BY <3>1, <3>2, <3>3 DEF MadeStands, InBatch
  <2>2. CASE w = q
    <3>1. ~ call[q].lost /\ k \in MadeOf(p, c) /\ q \in Applies /\ ~ c.lost
      BY <1>1, <2>2 DEF GoesOn, p
    <3>2. CASE k \in Made(q)
      <4>1. Has(running, o, q) \/ Disturbed(o)
        BY <2>2, <3>1, <3>2 DEF MadeStands
      <4>2. CASE Has(running, o, q)
        <5>1. CASE o \in DOMAIN running' /\ running'[o] = running[o]
          BY <1>1, <2>2, <3>1, <4>2, <5>1 DEF Has, GoesOn
        <5>2. CASE ~ (o \in DOMAIN running' /\ running'[o] = running[o])
          <6>1. PICK j \in Parts(p) : Drops(j) /\ o = Obj(p, j)
            BY <1>3, <4>2, <5>2 DEF Has
          <6>2. k \in 1..3 /\ j \in 1..3
            BY <1>6, <3>1, <3>2, PartTyped, <6>1
          <6>3. k = j
            BY <2>2, <6>1, <6>2, KindIsPart DEF p
          <6> QED BY <3>1, <6>1, <6>3
        <5> QED BY <5>1, <5>2
      <4> QED BY <1>5, <4>1, <4>2
    <3>3. CASE k \notin Made(q)
      <4>1. Creates(q, k)
        BY <3>1, <3>3 DEF GoesOn, p
      <4>2. Has(running', o, q)
        BY <2>2, <4>1 DEF Has, Creates, With
      <4>3. c.at # "applied"
        <5>1. Obj(p, k) \in DOMAIN running' /\ Obj(p, k) \notin DOMAIN running
          BY <4>1 DEF Creates, With, p
        <5> QED BY <3>1, <5>1 DEF GoesOn
      <4> QED BY <1>1, <2>2, <4>2, <4>3
    <3> QED BY <3>2, <3>3
  <2> QED BY <2>1, <2>2
<1>9. BeforeIsOlder'
  <2> SUFFICES ASSUME NEW w \in Applies, call'[w] # None, NEW e \in call'[w].before
               PROVE  /\ e[2] # w
                      /\ e[2] \notin Writes => e[2] <= outside
                      /\ e[2] \in Applies => call'[e[2]] # None
                      /\ e[2] \in Applies /\ call'[e[2]] # None /\ call'[e[2]].at = "run" =>
                           \A k \in Parts(req[e[2]].plan) :
                             e[1] = Obj(req[e[2]].plan, k) => k \in Made(e[2])'
    BY DEF BeforeIsOlder, InBatch
  <2>1. call[w] # None /\ e \in call[w].before
    BY <1>1 DEF GoesOn
  <2>2. /\ e[2] # w
        /\ e[2] \notin Writes => e[2] <= outside
        /\ e[2] \in Applies => call[e[2]] # None
        /\ e[2] \in Applies /\ call[e[2]] # None /\ call[e[2]].at = "run" =>
             \A k \in Parts(req[e[2]].plan) : e[1] = Obj(req[e[2]].plan, k) => k \in Made(e[2])
    BY <2>1 DEF BeforeIsOlder, InBatch
  <2>3. CASE e[2] # q
    BY <1>1, <2>2, <2>3
  <2>4. CASE e[2] = q
    <3>1. e[2] \in Applies /\ c.at = "run" =>
            call[q].at = "run" /\ \A k \in Made(q) : k \in MadeOf(p, c)
      BY <2>4 DEF GoesOn, p
    <3> QED BY <1>1, <2>2, <2>4, <3>1 DEF p
  <2> QED BY <2>3, <2>4
<1>10. MadeIsNew'
  <2> SUFFICES ASSUME NEW w \in Applies, call'[w] # None, ~ call'[w].lost, NEW k \in Made(w)',
                      NEW e \in call'[w].before, e[1] = Obj(req[w].plan, k),
                      Has(running', e[1], e[2])
               PROVE  FALSE
    BY DEF MadeIsNew
  <2>1. call[w] # None /\ e \in call[w].before /\ ~ call[w].lost
    BY <1>1 DEF GoesOn
  <2>2. e[2] # w
    BY <2>1 DEF BeforeIsOlder
  <2>3. CASE k \in Made(w)
    <3>1. ~ Has(running, e[1], e[2])
      BY <2>1, <2>3 DEF MadeIsNew
    <3>2. PICK j \in Parts(p) : /\ Adds(j) /\ e[1] = Obj(p, j)
                                 /\ running'[e[1]] = [owner |-> q, ref |-> Ref(p, call[q].src, j)]
      BY <1>2, <3>1 DEF Has
    <3>3. e[2] = q /\ q \in Applies /\ InBatch(q, "run") /\ j \notin Made(q)
      BY <3>2 DEF Has, Creates, InBatch
    <3> QED BY <2>1, <3>2, <3>3 DEF BeforeIsOlder, p
  <2>4. CASE k \notin Made(w)
    <3>1. w = q /\ Creates(q, k)
      BY <1>1, <2>4 DEF GoesOn, p
    <3>2. running'[e[1]].owner = q
      BY <3>1 DEF Creates, With
    <3> QED BY <2>2, <3>1, <3>2 DEF Has
  <2> QED BY <2>3, <2>4
<1> QED BY <1>7, <1>8, <1>9, <1>10

LEMMA BatchKeeps ==
  ASSUME IInv, NEW q \in Writes, call[q] # None, call[q].at \in {"run", "cleanup"},
         NEW c \in Calls, c.at = "run" => call[q].at = "run" /\ c.src = call[q].src,
         TodoOf(q, req[q].plan, c),
         UNCHANGED <<source, writable, tables, req, outside>>, faults' \in Nat,
         call' = [call EXCEPT ![q] = c], GoesOn(q, c), HasEffect(q, c)
  PROVE  IInv'
<1> USE DEF IInv
<1>1. UNCHANGED <<source, writable, approvals, previews, audit, req, outside>>
  BY DEF tables
<1>2. OwnedIsMade' /\ MadeStands' /\ BeforeIsOlder' /\ MadeIsNew'
  BY <1>1, StepKeeps
<1>3. /\ call \in [Writes -> Calls \cup {None}]
      /\ c # None /\ call'[q] = c /\ \A w \in Writes : w # q => call'[w] = call[w]
  BY NoneAssumption DEF TypeOK
<1>4. q \in Requests /\ req[q].plan \in Plans
  BY DEF Asked, Routes, RouteOf, Requests
<1>5. Config(running)' /\ Config(saved)'
  <2>1. Config(running) /\ Config(saved)
    BY DEF TypeOK
  <2>2. CASE running' = running /\ saved' \in {saved, running}
    BY <1>1, <2>1, <2>2 DEF Config
  <2>3. CASE \E k \in Parts(req[q].plan) : Creates(q, k)
    <3>1. PICK k \in Parts(req[q].plan) : Creates(q, k)
      BY <2>3
    <3>2. Obj(req[q].plan, k) \in Objects
      BY <1>4, PartTyped
    <3> QED BY <1>1, <2>1, <3>1, <3>2 DEF Config, Creates, With
  <2>4. CASE \E k \in Parts(req[q].plan) : Deletes(q, k)
    BY <1>1, <2>1, <2>4 DEF Config, Deletes, Without
  <2> QED BY <2>2, <2>3, <2>4 DEF HasEffect
<1>6. TypeOK'
  BY <1>1, <1>3, <1>5 DEF TypeOK
<1>7. Routes' /\ RowsOnce' /\ Checked'
  BY <1>1 DEF Routes, RowsOnce, Checked, CheckOf
<1>8. Asked'
  <2>1. q \notin audit /\ req[q].at # "audit"
    BY DEF Asked, InBatch
  <2>2. Applies \subseteq Writes
    BY DEF Writes
  <2>3. \A w \in Writes : call'[w] # None => req[w].at \in {"sent", "audit", "ended"}
    BY <1>3 DEF Asked
  <2>4. \A w \in Applies : call'[w] # None /\ call'[w].at = "run" =>
          call'[w].src = approvals[req[w].approval].fp.src
    BY <1>3, <2>2 DEF Asked, InBatch
  <2>5. \A w \in Writes : (w \in audit \/ req[w].at = "audit") =>
          call'[w] # None /\ call'[w].at = "applied"
    BY <1>3, <2>1 DEF Asked, InBatch
  <2> QED BY <1>1, <2>3, <2>4, <2>5 DEF Asked, InBatch
<1>9. Todo'
  BY <1>1, <1>3 DEF Todo
<1> QED BY <1>2, <1>6, <1>7, <1>8, <1>9

-----------------------------------------------------------------------------
(* Where a batch stands *)

LEMMA CallTyped ==
  ASSUME IInv, NEW q \in Writes, call[q] # None
  PROVE  /\ call[q] \in Calls
         /\ Writes \subseteq Requests /\ Applies \subseteq Writes /\ Rollbacks \subseteq Writes
         /\ q \in Applies <=> q \notin Rollbacks
         /\ TodoOf(q, req[q].plan, call[q])
         /\ req[q].plan \in Plans
<1>1. Writes \subseteq Requests /\ Applies \subseteq Writes /\ Rollbacks \subseteq Writes
  BY DEF Writes, Requests
<1> QED BY <1>1 DEF IInv, TypeOK, Todo, Asked, Routes, RouteOf, Writes

\* A creation is at its n-th command, and has made the parts before it.
LEMMA Creating ==
  ASSUME IInv, NEW q \in Applies, InBatch(q, "run")
  PROVE  \E n \in 1..(Size(req[q].plan) + 1) :
           /\ call[q].todo = Rest(req[q].plan, n)
           /\ Made(q) = 1..(n - 1) /\ Position(q) = n
           /\ call[q].clean /\ ~ call[q].lost
           /\ n \in Parts(req[q].plan) => Command(q) = Add(n)
           /\ n \notin Parts(req[q].plan) => Command(q) = Save
<1>1. q \in Writes /\ call[q] # None /\ call[q].at = "run"
  BY DEF InBatch, Writes
<1>2. PICK n \in 1..(Size(req[q].plan) + 1) : call[q].todo = Rest(req[q].plan, n)
  BY <1>1, CallTyped DEF TodoOf
<1>3. Size(req[q].plan) \in Nat /\ Len(call[q].todo) = Size(req[q].plan) + 2 - n
  BY <1>2, RestIs, SizeTyped
<1>4. Made(q) = 1..(n - 1)
  <2>1. Size(req[q].plan) + 1 - (Size(req[q].plan) + 2 - n) = n - 1
    BY <1>3
  <2> QED BY <1>1, <1>3, <2>1 DEF Made, MadeOf
<1>5. Position(q) = n
  BY <1>3, CreateBatchIs DEF Position, Batch
<1>6. call[q].clean /\ ~ call[q].lost
  BY <1>1, CallTyped DEF TodoOf
<1>7. /\ n \in Parts(req[q].plan) => Command(q) = Add(n)
      /\ n \notin Parts(req[q].plan) => Command(q) = Save
  BY <1>2, RestIs DEF Command
<1> QED BY <1>2, <1>4, <1>5, <1>6, <1>7

\* What is left to undo is the parts that were made, the last one first.
LEMMA Undoing ==
  ASSUME IInv, NEW q \in Writes, InBatch(q, "cleanup")
  PROVE  /\ q \in Applies
         /\ \E n \in Parts(req[q].plan) :
              /\ call[q].todo = Removals(n) /\ Made(q) = 1..n /\ Command(q) = Rm(n)
              /\ Len(call[q].todo) = n /\ Tail(call[q].todo) = Removals(n - 1)
<1>1. call[q] # None /\ call[q].at = "cleanup"
  BY DEF InBatch
<1>2. q \in Applies
  BY <1>1, CallTyped DEF TodoOf
<1>3. PICK n \in Parts(req[q].plan) : call[q].todo = Removals(n)
  BY <1>1, <1>2, CallTyped DEF TodoOf
<1>4. n \in 1..3
  BY SizeTyped
<1>5. Len(call[q].todo) = n /\ Head(call[q].todo) = Rm(n)
      /\ Tail(call[q].todo) = Removals(n - 1)
  BY <1>3, <1>4, RemovalsAre
<1>6. Made(q) = 1..n
  BY <1>1, <1>5 DEF Made, MadeOf
<1> QED BY <1>2, <1>3, <1>5, <1>6 DEF Command

LEMMA Doing ==
  ASSUME NEW q, Can(q), Do(q)
  PROVE  /\ source' = source
         /\ \A k : Command(q) = Add(k) =>
              (q \in Applies /\ call[q].at = "run" /\ k \notin Made(q) => Creates(q, k))
         /\ \A k : Command(q) = Rm(k) => Deletes(q, k)
         /\ Command(q) = Save => running' = running /\ saved' = running
<1>1. source' = source
  BY DEF Do, Execute
<1>2. ASSUME NEW k, Command(q) = Add(k), q \in Applies, call[q].at = "run", k \notin Made(q)
      PROVE  Creates(q, k)
  <2>1. Command(q).op = "add" /\ Command(q).k = k
    BY <1>2 DEF Add
  <2> QED BY <1>2, <2>1 DEF Creates, Can, Possible, Do, Execute
<1>3. ASSUME NEW k, Command(q) = Rm(k)
      PROVE  Deletes(q, k)
  <2>1. Command(q).op = "rm" /\ Command(q).k = k
    BY <1>3 DEF Rm
  <2> QED BY <2>1 DEF Deletes, Do, Execute
<1>4. Command(q) = Save => running' = running /\ saved' = running
  <2>1. Save.op = "save"
    BY DEF Save
  <2> QED BY <2>1 DEF Do, Execute
<1> QED BY <1>1, <1>2, <1>3, <1>4

LEMMA TailIs ==
  ASSUME NEW s \in Seq(Commands), s # <<>>
  PROVE  /\ Tail(s) \in Seq(Commands)
         /\ \A i \in DOMAIN Tail(s) : i + 1 \in DOMAIN s /\ Tail(s)[i] = s[i + 1]
         /\ Len(s) # 1 => Tail(s) # <<>>
<1>1. Len(s) \in Nat /\ Len(s) > 0
  OBVIOUS
<1>2. Tail(s) \in Seq(Commands) /\ Len(Tail(s)) = Len(s) - 1
  BY <1>1
<1>3. DOMAIN Tail(s) = 1..(Len(s) - 1) /\ DOMAIN s = 1..Len(s)
  BY <1>2
<1>4. \A i \in 1..(Len(s) - 1) : i + 1 \in 1..Len(s) /\ Tail(s)[i] = s[i + 1]
  BY <1>1
<1>5. Len(s) # 1 => Tail(s) # <<>>
  <2>1. Len(<<>>) = 0
    OBVIOUS
  <2>2. Tail(s) = <<>> => Len(Tail(s)) = 0
    BY <2>1
  <2> QED BY <1>1, <1>2, <2>2
<1>6. \A i \in DOMAIN Tail(s) : i + 1 \in DOMAIN s /\ Tail(s)[i] = s[i + 1]
  BY <1>3, <1>4
<1> QED BY <1>2, <1>5, <1>6

\* A removal only ever removes parts of its own plan.
LEMMA Removing ==
  ASSUME IInv, NEW q \in Rollbacks, InBatch(q, "run")
  PROVE  /\ call[q].todo # <<>>
         /\ Command(q) \in {Rm(k) : k \in Parts(req[q].plan)} \cup {Save}
         /\ Len(call[q].todo) # 1 =>
              \A i \in DOMAIN Tail(call[q].todo) :
                Tail(call[q].todo)[i] \in {Rm(k) : k \in Parts(req[q].plan)} \cup {Save}
         /\ Len(call[q].todo) # 1 => Tail(call[q].todo) # <<>>
<1>1. q \in Writes /\ call[q] # None /\ call[q].at = "run"
  BY DEF InBatch, Writes
<1>2. call[q].todo # <<>> /\ \A i \in DOMAIN call[q].todo :
        call[q].todo[i] \in {Rm(k) : k \in Parts(req[q].plan)} \cup {Save}
  BY <1>1, CallTyped DEF TodoOf
<1>3. call[q].todo \in Seq(Commands)
  BY <1>1, CallTyped DEF Calls, Commands
<1>4. Len(call[q].todo) \in Nat /\ Len(call[q].todo) > 0 /\ 1 \in DOMAIN call[q].todo
  BY <1>2, <1>3
<1>5. Command(q) = call[q].todo[1]
  BY <1>3 DEF Command
<1>6. /\ \A i \in DOMAIN Tail(call[q].todo) :
           i + 1 \in DOMAIN call[q].todo /\ Tail(call[q].todo)[i] = call[q].todo[i + 1]
      /\ Len(call[q].todo) # 1 => Tail(call[q].todo) # <<>>
  BY <1>2, <1>3, TailIs
<1> QED BY <1>2, <1>4, <1>5, <1>6

\* A removal that goes on or ends, and what it did meanwhile.
LEMMA RemovalStep ==
  ASSUME IInv, NEW q \in Rollbacks, InBatch(q, "run"), NEW c,
         \/ UNCHANGED <<running, saved, source>>
         \/ Can(q) /\ Do(q)
  PROVE  HasEffect(q, c) /\ source' = source
<1>1. CASE UNCHANGED <<running, saved, source>>
  BY <1>1 DEF HasEffect
<1>2. CASE Can(q) /\ Do(q)
  <2>1. q \notin Applies
    BY DEF RequestAssumption
  <2>2. CASE Command(q) = Save
    BY <1>2, <2>2, Doing DEF HasEffect
  <2>3. CASE \E k \in Parts(req[q].plan) : Command(q) = Rm(k)
    <3>1. PICK k \in Parts(req[q].plan) : Command(q) = Rm(k)
      BY <2>3
    <3>2. Deletes(q, k) /\ source' = source
      BY <1>2, <3>1, Doing
    <3> QED BY <2>1, <3>2 DEF HasEffect
  <2> QED BY <2>2, <2>3, Removing
<1> QED BY <1>1, <1>2

LEMMA OverIs ==
  ASSUME NEW c \in Calls, NEW outcome \in {"applied", "failed", "error"}
  PROVE  /\ Over(c, outcome) \in Calls
         /\ Over(c, outcome).at = outcome /\ Over(c, outcome).todo = <<>>
         /\ Over(c, outcome).before = {} /\ Over(c, outcome).lost = c.lost
         /\ Over(c, outcome).clean = c.clean
<1>1. <<>> \in Seq([op : {"add", "rm", "save"}, k : 0..3])
  OBVIOUS
<1> QED BY <1>1 DEF Calls, Over

\* A batch that raised undoes the commands before the failed one, or just fails.
LEMMA Raising ==
  ASSUME IInv, NEW q \in Writes, InBatch(q, "run"), NEW failed, NEW isLost \in BOOLEAN,
         q \in Applies => failed \in 1..(Size(req[q].plan) + 1),
         Raised(q, failed, isLost)
  PROVE  \E c \in Calls :
           /\ call' = [call EXCEPT ![q] = c]
           /\ c.before \subseteq call[q].before
           /\ c.lost = isLost /\ c.clean = call[q].clean
           /\ c.at \in {"cleanup", "failed"}
           /\ TodoOf(q, req[q].plan, c)
           /\ q \in Applies => MadeOf(req[q].plan, c) = 1..(failed - 1)
<1> DEFINE rest == IF q \in Applies THEN CleanupBatches(failed) ELSE <<>>
           d == [call[q] EXCEPT !.todo = rest, !.lost = isLost]
<1>1. call[q] \in Calls /\ call[q] # None /\ call[q].at = "run"
      /\ (q \in Applies <=> q \notin Rollbacks)
  BY CallTyped DEF InBatch
<1>2. q \in Applies => /\ failed - 1 \in 0..Size(req[q].plan)
                       /\ failed - 1 \in 0..3
                       /\ Size(req[q].plan) \in Nat
                       /\ Parts(req[q].plan) = 1..Size(req[q].plan)
  BY SizeTyped
<1>3. rest \in Seq(Commands)
  BY SMTT(30), <1>2, RemovalsAre DEF CleanupBatches
<1>4. PICK x \in Calls : /\ x = d /\ x.todo = rest /\ x.lost = isLost /\ x.at = call[q].at
                         /\ x.clean = call[q].clean /\ x.before = call[q].before
  <2>1. /\ d \in Calls /\ d.todo = rest /\ d.lost = isLost /\ d.at = call[q].at
        /\ d.clean = call[q].clean /\ d.before = call[q].before
    BY <1>1, <1>3 DEF Calls, Commands
  <2> HIDE DEF d
  <2> QED BY <2>1
<1>5. CASE rest = <<>>
  <2>1. call' = [call EXCEPT ![q] = Over(x, "failed")]
    BY <1>4, <1>5 DEF Raised
  <2>2. /\ Over(x, "failed") \in Calls /\ Over(x, "failed").at = "failed"
        /\ Over(x, "failed").todo = <<>> /\ Over(x, "failed").before = {}
        /\ Over(x, "failed").lost = isLost /\ Over(x, "failed").clean = call[q].clean
    <3>1. "failed" \in {"applied", "failed", "error"}
      OBVIOUS
    <3> HIDE DEF d, rest
    <3> QED BY <1>4, <3>1, OverIs
  <2>3. q \in Applies => failed - 1 = 0
    BY <1>2, <1>5, RemovalsAre DEF CleanupBatches
  <2>4. MadeOf(req[q].plan, Over(x, "failed")) = {}
    BY <2>2 DEF MadeOf
  <2>5. TodoOf(q, req[q].plan, Over(x, "failed"))
    BY <2>2 DEF TodoOf
  <2>6. q \in Applies => 1..(failed - 1) = {}
    BY <2>3
  <2> QED BY <2>1, <2>2, <2>4, <2>5, <2>6
<1>6. CASE rest # <<>>
  <2> DEFINE e == [x EXCEPT !.at = "cleanup"]
  <2>1. q \in Applies /\ q \notin Rollbacks /\ rest = Removals(failed - 1)
    BY <1>1, <1>6 DEF CleanupBatches
  <2>2. call' = [call EXCEPT ![q] = e]
    BY <1>4, <1>6 DEF Raised
  <2>3. /\ e \in Calls /\ e.todo = rest /\ e.lost = isLost /\ e.at = "cleanup"
        /\ e.clean = call[q].clean /\ e.before = call[q].before
    BY <1>4 DEF Calls
  <2>4. failed - 1 \in Parts(req[q].plan) /\ Len(rest) = failed - 1
    <3>1. PICK n \in 0..3 : n = failed - 1
      BY <1>2, <2>1
    <3>2. n # 0 /\ Len(rest) = n
      BY <1>6, <2>1, <3>1, RemovalsAre
    <3>3. n \in Parts(req[q].plan)
      BY <1>2, <2>1, <3>1, <3>2
    <3> QED BY <3>1, <3>2, <3>3
  <2>5. TodoOf(q, req[q].plan, e)
    BY <2>1, <2>3, <2>4 DEF TodoOf
  <2>6. MadeOf(req[q].plan, e) = 1..(failed - 1)
    BY <2>3, <2>4 DEF MadeOf
  <2> HIDE DEF e
  <2> QED BY <2>2, <2>3, <2>5, <2>6
<1> QED BY <1>5, <1>6

LEMMA RejectedKeeps ==
  ASSUME IInv, NEW q \in Writes, Rejected(q)
  PROVE  IInv'
<1>1. /\ InBatch(q, "run") /\ call[q] # None /\ call[q].at = "run"
      /\ UNCHANGED <<running, saved, source, writable, tables, req, outside>>
      /\ Raised(q, Position(q), FALSE)
  BY DEF Rejected, InBatch, adc
<1>2. faults' \in Nat
  BY DEF Rejected, Fault, IInv, TypeOK
<1>3. q \in Applies => /\ Position(q) \in 1..(Size(req[q].plan) + 1)
                       /\ Made(q) = 1..(Position(q) - 1)
                       /\ ~ call[q].lost
  BY <1>1, Creating
<1>4. PICK c \in Calls :
        /\ call' = [call EXCEPT ![q] = c]
        /\ c.before \subseteq call[q].before
        /\ c.lost = FALSE /\ c.clean = call[q].clean
        /\ c.at \in {"cleanup", "failed"}
        /\ TodoOf(q, req[q].plan, c)
        /\ q \in Applies => MadeOf(req[q].plan, c) = 1..(Position(q) - 1)
  BY <1>1, <1>3, Raising
<1>5. ~ call[q].lost
  BY <1>1, CallTyped DEF TodoOf
<1>6. GoesOn(q, c)
  BY <1>3, <1>4, <1>5 DEF GoesOn
<1>7. HasEffect(q, c)
  BY <1>1 DEF HasEffect
<1> QED BY <1>1, <1>2, <1>4, <1>6, <1>7, BatchKeeps

LEMMA LostKeeps ==
  ASSUME IInv, NEW q \in Writes, Lost(q)
  PROVE  IInv'
<1>1. /\ InBatch(q, "run") /\ call[q] # None /\ call[q].at = "run"
      /\ UNCHANGED <<writable, tables, req, outside>>
      /\ Raised(q, Len(Batch(q)), TRUE)
      /\ (Can(q) /\ Do(q)) \/ UNCHANGED <<running, saved, source>>
  BY DEF Lost, InBatch, adc
<1>2. faults' \in Nat
  BY DEF Lost, Fault, IInv, TypeOK
<1>3. q \in Applies => Len(Batch(q)) = Size(req[q].plan) + 1
  BY CreateBatchIs DEF Batch
<1>4. Size(req[q].plan) \in Nat /\ Parts(req[q].plan) = 1..Size(req[q].plan)
  BY SizeTyped
<1>5. q \in Applies => Len(Batch(q)) \in 1..(Size(req[q].plan) + 1)
                       /\ Len(Batch(q)) - 1 = Size(req[q].plan)
  BY <1>3, <1>4
<1>6. PICK c \in Calls :
        /\ call' = [call EXCEPT ![q] = c]
        /\ c.before \subseteq call[q].before
        /\ c.lost = TRUE /\ c.clean = call[q].clean
        /\ c.at \in {"cleanup", "failed"}
        /\ TodoOf(q, req[q].plan, c)
        /\ q \in Applies => MadeOf(req[q].plan, c) = 1..(Len(Batch(q)) - 1)
  BY <1>1, <1>5, Raising
<1>7. q \in Applies => MadeOf(req[q].plan, c) = Parts(req[q].plan)
  BY <1>4, <1>5, <1>6
<1>8. CASE q \in Applies
  <2>1. PICK n \in 1..(Size(req[q].plan) + 1) :
          /\ Made(q) = 1..(n - 1)
          /\ n \in Parts(req[q].plan) => Command(q) = Add(n)
          /\ n \notin Parts(req[q].plan) => Command(q) = Save
    BY <1>1, <1>8, Creating
  <2>2. Made(q) \subseteq Parts(req[q].plan) /\ n \notin Made(q)
    BY <1>4, <2>1
  <2>3. GoesOn(q, c)
    BY <1>6, <1>7, <2>2 DEF GoesOn
  <2>4. HasEffect(q, c) /\ source' = source
    <3>1. CASE UNCHANGED <<running, saved, source>>
      BY <3>1 DEF HasEffect
    <3>2. CASE Can(q) /\ Do(q) /\ n \in Parts(req[q].plan)
      <4>1. Creates(q, n) /\ source' = source
        BY <1>1, <1>8, <2>1, <2>2, <3>2, Doing
      <4> QED BY <1>7, <1>8, <3>2, <4>1 DEF HasEffect
    <3>3. CASE Can(q) /\ Do(q) /\ n \notin Parts(req[q].plan)
      BY <2>1, <3>3, Doing DEF HasEffect
    <3> QED BY <1>1, <3>1, <3>2, <3>3
  <2> QED BY <1>1, <1>2, <1>6, <2>3, <2>4, BatchKeeps
<1>9. CASE q \in Rollbacks
  <2>1. q \notin Applies
    BY <1>9
  <2>2. GoesOn(q, c)
    BY <1>6, <2>1 DEF GoesOn
  <2>3. HasEffect(q, c) /\ source' = source
    BY <1>1, <1>9, RemovalStep
  <2> QED BY <1>1, <1>2, <1>6, <2>2, <2>3, BatchKeeps
<1> QED BY <1>8, <1>9 DEF Writes

LEMMA SshErrorKeeps ==
  ASSUME IInv, NEW q \in Writes, SshError(q)
  PROVE  IInv'
<1> DEFINE c == Over(call[q], "error")
<1>1. /\ InBatch(q, "run") /\ call[q] # None /\ call[q].at = "run"
      /\ UNCHANGED <<running, saved, source, writable, tables, req, outside>>
      /\ Position(q) = 1
      /\ call' = [call EXCEPT ![q] = c]
  BY DEF SshError, InBatch, adc
<1>2. faults' \in Nat
  BY DEF SshError, Fault, IInv, TypeOK
<1>3. call[q] \in Calls /\ "error" \in {"applied", "failed", "error"}
  BY <1>1, CallTyped
<1>4. /\ c \in Calls /\ c.at = "error" /\ c.todo = <<>>
      /\ c.before = {} /\ c.lost = call[q].lost /\ c.clean = call[q].clean
  BY <1>3, OverIs
<1>5. q \in Applies => Made(q) = {}
  BY <1>1, Creating
<1>6. MadeOf(req[q].plan, c) = {}
  BY <1>4 DEF MadeOf
<1>7. TodoOf(q, req[q].plan, c)
  BY <1>4 DEF TodoOf
<1> HIDE DEF c
<1>8. GoesOn(q, c)
  BY <1>4, <1>5, <1>6 DEF GoesOn
<1>9. HasEffect(q, c)
  BY <1>1 DEF HasEffect
<1> QED BY <1>1, <1>2, <1>4, <1>7, <1>8, <1>9, BatchKeeps

LEMMA Advancing ==
  ASSUME NEW c \in Calls, NEW outcome \in {"applied", "failed", "error"}, c.todo # <<>>
  PROVE  /\ Advance(c, outcome) \in Calls
         /\ Advance(c, outcome).lost = c.lost /\ Advance(c, outcome).clean = c.clean
         /\ Advance(c, outcome).before \subseteq c.before
         /\ Len(c.todo) = 1 => Advance(c, outcome).at = outcome
                               /\ Advance(c, outcome).todo = <<>>
         /\ Len(c.todo) # 1 => /\ Advance(c, outcome).at = c.at
                               /\ Advance(c, outcome).src = c.src
                               /\ Advance(c, outcome).todo = Tail(c.todo)
<1>1. CASE Len(c.todo) = 1
  <2>1. Advance(c, outcome) = Over(c, outcome)
    BY <1>1 DEF Advance
  <2> QED BY <1>1, <2>1, OverIs
<1>2. CASE Len(c.todo) # 1
  <2>1. Tail(c.todo) \in Seq(Commands)
    BY TailIs DEF Calls, Commands
  <2>2. Advance(c, outcome) = [c EXCEPT !.todo = Tail(c.todo)]
    BY <1>2 DEF Advance
  <2> QED BY <1>2, <2>1, <2>2 DEF Calls, Commands
<1> QED BY <1>1, <1>2

LEMMA ExecutedKeeps ==
  ASSUME IInv, NEW q \in Writes, Executed(q)
  PROVE  IInv'
<1>1. /\ InBatch(q, "run") /\ call[q] # None /\ call[q].at = "run"
      /\ UNCHANGED <<writable, tables, req, outside>>
      /\ call' = [call EXCEPT ![q] = Advance(@, "applied")]
      /\ Can(q) /\ Do(q)
  BY DEF Executed, InBatch, bounds
<1>2. faults' \in Nat
  BY DEF Executed, bounds, IInv, TypeOK
<1>3. call[q] \in Calls /\ TodoOf(q, req[q].plan, call[q])
      /\ (q \in Applies <=> q \notin Rollbacks)
  BY <1>1, CallTyped
<1>4. Size(req[q].plan) \in Nat /\ Parts(req[q].plan) = 1..Size(req[q].plan)
  BY SizeTyped
<1>5. "applied" \in {"applied", "failed", "error"}
  OBVIOUS
<1>6. call[q].todo # <<>>
  <2>1. CASE q \in Applies
    <3>1. PICK n \in 1..(Size(req[q].plan) + 1) : call[q].todo = Rest(req[q].plan, n)
      BY <1>1, <2>1, Creating
    <3>2. Len(call[q].todo) > 0
      BY <1>4, <3>1, RestIs
    <3>3. Len(<<>>) = 0
      OBVIOUS
    <3> QED BY <3>2, <3>3
  <2>2. CASE q \in Rollbacks
    BY <1>1, <2>2, Removing
  <2> QED BY <2>1, <2>2 DEF Writes
<1>7. PICK c \in Calls :
        /\ call' = [call EXCEPT ![q] = c]
        /\ c.lost = call[q].lost /\ c.clean = call[q].clean
        /\ c.before \subseteq call[q].before
        /\ Len(call[q].todo) = 1 => c.at = "applied" /\ c.todo = <<>>
        /\ Len(call[q].todo) # 1 => /\ c.at = call[q].at /\ c.src = call[q].src
                                    /\ c.todo = Tail(call[q].todo)
  <2> DEFINE d == Advance(call[q], "applied")
  <2>1. call' = [call EXCEPT ![q] = d]
    BY <1>1
  <2>2. /\ d \in Calls /\ d.lost = call[q].lost /\ d.clean = call[q].clean
        /\ d.before \subseteq call[q].before
        /\ Len(call[q].todo) = 1 => d.at = "applied" /\ d.todo = <<>>
        /\ Len(call[q].todo) # 1 => /\ d.at = call[q].at /\ d.src = call[q].src
                                    /\ d.todo = Tail(call[q].todo)
    BY <1>3, <1>5, <1>6, Advancing
  <2> HIDE DEF d
  <2> QED BY <2>1, <2>2
<1>8. call[q].clean /\ ~ call[q].lost
  BY <1>1, <1>3 DEF TodoOf
<1>9. CASE q \in Applies
  <2>1. PICK n \in 1..(Size(req[q].plan) + 1) :
          /\ call[q].todo = Rest(req[q].plan, n)
          /\ Made(q) = 1..(n - 1)
          /\ n \in Parts(req[q].plan) => Command(q) = Add(n)
          /\ n \notin Parts(req[q].plan) => Command(q) = Save
    BY <1>1, <1>9, Creating
  <2>2. CASE n \in Parts(req[q].plan)
    <3>1. /\ Len(call[q].todo) # 1 /\ Tail(call[q].todo) = Rest(req[q].plan, n + 1)
          /\ n + 1 \in 1..(Size(req[q].plan) + 1)
      <4>1. n <= Size(req[q].plan) /\ n + 1 \in 1..(Size(req[q].plan) + 1)
        BY <1>4, <2>2
      <4>2. Len(call[q].todo) = Size(req[q].plan) + 2 - n
        BY <2>1, RestIs
      <4>3. Tail(call[q].todo) = Rest(req[q].plan, n + 1)
        BY <2>1, <2>2, RestIs
      <4> QED BY <1>4, <4>1, <4>2, <4>3
    <3>2. c.at = "run" /\ c.todo = Rest(req[q].plan, n + 1) /\ c.src = call[q].src
      BY <1>1, <1>7, <3>1
    <3>3. Len(c.todo) = Size(req[q].plan) + 1 - n
      <4>1. PICK m \in 1..(Size(req[q].plan) + 1) : m = n + 1
        BY <3>1
      <4>2. Len(c.todo) = Size(req[q].plan) + 2 - m
        BY <3>2, <4>1, RestIs
      <4> QED BY <1>4, <4>1, <4>2
    <3>4. MadeOf(req[q].plan, c) = 1..n
      <4>1. Size(req[q].plan) + 1 - Len(c.todo) = n
        BY <1>4, <3>3
      <4> QED BY <3>2, <4>1 DEF MadeOf
    <3>5. n \notin Made(q) /\ \A k \in 1..n : k \in Made(q) \/ k = n
      BY <2>1
    <3>6. Creates(q, n) /\ source' = source
      BY <1>1, <1>9, <2>1, <2>2, <3>5, Doing
    <3>7. Made(q) \subseteq MadeOf(req[q].plan, c) /\ n \in MadeOf(req[q].plan, c)
      BY <2>1, <3>4
    <3>8. GoesOn(q, c)
      BY <1>1, <1>7, <1>8, <1>9, <3>2, <3>4, <3>5, <3>6, <3>7 DEF GoesOn
    <3>9. HasEffect(q, c)
      BY <2>2, <3>6, <3>7 DEF HasEffect
    <3>10. TodoOf(q, req[q].plan, c)
      BY <1>3, <1>7, <1>8, <1>9, <3>1, <3>2 DEF TodoOf
    <3> QED BY <1>1, <1>2, <1>7, <3>2, <3>6, <3>8, <3>9, <3>10, BatchKeeps
  <2>3. CASE n \notin Parts(req[q].plan)
    <3>1. Len(call[q].todo) = 1 /\ n = Size(req[q].plan) + 1
      <4>1. Len(call[q].todo) = 1
        BY <2>1, <2>3, RestIs
      <4> QED BY <1>4, <2>3, <4>1
    <3>2. c.at = "applied"
      BY <1>7, <3>1
    <3>3. MadeOf(req[q].plan, c) = Parts(req[q].plan) /\ Made(q) = Parts(req[q].plan)
      BY <1>4, <2>1, <3>1, <3>2 DEF MadeOf
    <3>4. running' = running /\ saved' = running /\ source' = source
      BY <1>1, <2>1, <2>3, Doing
    <3>5. GoesOn(q, c)
      BY <1>7, <3>2, <3>3, <3>4 DEF GoesOn
    <3>6. HasEffect(q, c)
      BY <3>4 DEF HasEffect
    <3>7. TodoOf(q, req[q].plan, c)
      BY <1>3, <1>7, <1>8, <1>9, <3>2 DEF TodoOf
    <3> QED BY <1>1, <1>2, <1>7, <3>2, <3>4, <3>5, <3>6, <3>7, BatchKeeps
  <2> QED BY <2>2, <2>3
<1>10. CASE q \in Rollbacks
  <2>1. q \notin Applies
    BY <1>10
  <2>2. GoesOn(q, c)
    BY <1>7, <2>1 DEF GoesOn
  <2>3. HasEffect(q, c) /\ source' = source
    BY <1>1, <1>10, RemovalStep
  <2>4. c.at \in {"run", "applied"} /\ (c.at = "run" => c.src = call[q].src)
    BY <1>1, <1>7
  <2>5. TodoOf(q, req[q].plan, c)
    <3>1. CASE Len(call[q].todo) = 1
      BY <1>7, <1>8, <2>1, <3>1 DEF TodoOf
    <3>2. CASE Len(call[q].todo) # 1
      BY <1>1, <1>7, <1>8, <1>10, <2>1, <3>2, Removing DEF TodoOf
    <3> QED BY <3>1, <3>2
  <2> QED BY <1>1, <1>2, <1>7, <2>2, <2>3, <2>4, <2>5, BatchKeeps
<1> QED BY <1>9, <1>10 DEF Writes

LEMMA CleanupKeeps ==
  ASSUME IInv, NEW q \in Writes, Cleanup(q)
  PROVE  IInv'
<1>1. /\ InBatch(q, "cleanup") /\ call[q] # None /\ call[q].at = "cleanup"
      /\ UNCHANGED <<writable, tables, req, outside>>
  BY DEF Cleanup, InBatch
<1>2. faults' \in Nat
  BY DEF Cleanup, Fault, IInv, TypeOK
<1>3. PICK ok \in BOOLEAN :
        /\ (Can(q) /\ Do(q)) \/ (~ ok /\ UNCHANGED <<running, saved, source>>)
        /\ call' = [call EXCEPT ![q] =
                     Advance([call[q] EXCEPT !.clean = call[q].clean /\ ok], "failed")]
  BY DEF Cleanup, adc
<1>4. call[q] \in Calls /\ TodoOf(q, req[q].plan, call[q])
  BY <1>1, CallTyped
<1>5. q \in Applies /\ q \notin Rollbacks
  BY <1>1, Undoing, CallTyped
<1>6. PICK n \in Parts(req[q].plan) :
        /\ call[q].todo = Removals(n) /\ Made(q) = 1..n /\ Command(q) = Rm(n)
        /\ Len(call[q].todo) = n /\ Tail(call[q].todo) = Removals(n - 1)
  BY <1>1, Undoing
<1>7. n \in 1..3 /\ Parts(req[q].plan) = 1..Size(req[q].plan) /\ Size(req[q].plan) \in Nat
  BY SizeTyped
<1>8. PICK c \in Calls :
        /\ call' = [call EXCEPT ![q] = c]
        /\ c.lost = call[q].lost /\ (c.clean => call[q].clean) /\ (c.clean => ok)
        /\ c.before \subseteq call[q].before
        /\ n = 1 => c.at = "failed" /\ c.todo = <<>>
        /\ n # 1 => c.at = "cleanup" /\ c.todo = Removals(n - 1)
  <2> DEFINE d == [call[q] EXCEPT !.clean = call[q].clean /\ ok]
  <2>1. call[q].clean \in BOOLEAN /\ (call[q].clean /\ ok) \in BOOLEAN
    BY <1>4 DEF Calls
  <2>2. PICK x \in Calls :
          /\ x = d /\ (x.clean => call[q].clean) /\ (x.clean => ok) /\ x.todo = call[q].todo
          /\ x.at = "cleanup" /\ x.lost = call[q].lost /\ x.before = call[q].before
    <3>1. /\ d \in Calls /\ d.clean = (call[q].clean /\ ok) /\ d.todo = call[q].todo
          /\ d.at = "cleanup" /\ d.lost = call[q].lost /\ d.before = call[q].before
      BY <1>1, <1>4, <2>1 DEF Calls
    <3> HIDE DEF d
    <3> QED BY <3>1
  <2>3. call' = [call EXCEPT ![q] = Advance(d, "failed")]
    BY <1>3
  <2>4. call' = [call EXCEPT ![q] = Advance(x, "failed")]
    BY <2>2, <2>3
  <2>5. x.todo # <<>>
    <3>1. n \in 0..3 /\ n # 0 /\ x.todo = Removals(n)
      BY <1>6, <1>7, <2>2
    <3> QED BY <3>1, RemovalsAre
  <2>6. "failed" \in {"applied", "failed", "error"}
    OBVIOUS
  <2> HIDE DEF d
  <2>7. PICK c \in Calls : c = Advance(x, "failed")
    BY <2>2, <2>5, <2>6, Advancing
  <2>8. /\ c.lost = x.lost /\ c.clean = x.clean /\ c.before \subseteq x.before
        /\ n = 1 => c.at = "failed" /\ c.todo = <<>>
        /\ n # 1 => c.at = x.at /\ c.todo = Tail(x.todo)
    <3>1. Len(x.todo) = n
      BY <1>6, <2>2
    <3>2. /\ c.lost = x.lost /\ c.clean = x.clean /\ c.before \subseteq x.before
          /\ Len(x.todo) = 1 => c.at = "failed" /\ c.todo = <<>>
          /\ Len(x.todo) # 1 => c.at = x.at /\ c.todo = Tail(x.todo)
      BY <2>5, <2>6, <2>7, Advancing
    <3> QED BY <3>1, <3>2
  <2> QED BY <1>6, <2>2, <2>4, <2>7, <2>8
<1>9. /\ n \notin MadeOf(req[q].plan, c)
      /\ \A k \in 1..n : k \in MadeOf(req[q].plan, c) \/ k = n
      /\ MadeOf(req[q].plan, c) \subseteq Made(q)
  <2>1. CASE n = 1
    BY <1>6, <1>8, <2>1 DEF MadeOf
  <2>2. CASE n # 1
    <3>1. PICK m \in 1..3 : m = n - 1
      BY <1>7, <2>2
    <3>2. Len(c.todo) = m
      BY <1>8, <2>2, <3>1, RemovalsAre
    <3>3. MadeOf(req[q].plan, c) = 1..m
      BY <1>8, <2>2, <3>2 DEF MadeOf
    <3> QED BY <1>6, <1>7, <3>1, <3>3
  <2> QED BY <2>1, <2>2
<1>10. c.at \in {"cleanup", "failed"}
  BY <1>8
<1>11. TodoOf(q, req[q].plan, c)
  <2>1. n # 1 => n - 1 \in Parts(req[q].plan)
    BY <1>6, <1>7
  <2> QED BY <1>5, <1>8, <2>1 DEF TodoOf
<1>12. n \in Made(q) \ MadeOf(req[q].plan, c)
  BY <1>6, <1>7, <1>9
<1>13. CASE Can(q) /\ Do(q)
  <2>1. Deletes(q, n) /\ source' = source
    BY <1>6, <1>13, Doing
  <2>2. Obj(req[q].plan, n) \notin DOMAIN running'
    BY <2>1 DEF Deletes, Without
  <2>3. GoesOn(q, c)
    BY <1>6, <1>8, <1>9, <1>10, <2>2 DEF GoesOn
  <2>4. HasEffect(q, c)
    BY <1>6, <1>12, <2>1 DEF HasEffect
  <2> QED BY <1>1, <1>2, <1>8, <1>10, <1>11, <2>1, <2>3, <2>4, BatchKeeps
<1>14. CASE ~ ok /\ UNCHANGED <<running, saved, source>>
  <2>1. GoesOn(q, c)
    BY <1>8, <1>9, <1>10, <1>14 DEF GoesOn
  <2>2. HasEffect(q, c)
    BY <1>14 DEF HasEffect
  <2> QED BY <1>1, <1>2, <1>8, <1>10, <1>11, <1>14, <2>1, <2>2, BatchKeeps
<1> QED BY <1>3, <1>13, <1>14

-----------------------------------------------------------------------------
(* What control-api does *)

\* A batch that was asked for and has done nothing yet.
Fresh(q, r, c) ==
  /\ q \in Writes /\ call[q] = None /\ r.at = "sent"
  /\ call' = [call EXCEPT ![q] = c]
  /\ c.at = "run" /\ c.before = Present(r.plan)
  /\ TodoOf(q, r.plan, c)
  /\ q \in Applies => MadeOf(r.plan, c) = {} /\ c.src = approvals[r.approval].fp.src

LEMMA RequestKeeps ==
  ASSUME IInv, NEW q \in Requests, NEW r \in ReqStates, req' = [req EXCEPT ![q] = r],
         UNCHANGED <<adc, writable, bounds>>, req[q].at # "ended",
         approvals' \in [Approves -> Approvals \cup {None}],
         previews' \in [Preflights -> Previews \cup {None}],
         \A a \in Approves : approvals'[a] = approvals[a] \/ (a = q /\ r.at = "ended"),
         \A v \in Preflights : previews'[v] = previews[v] \/ (v = q /\ r.at = "ended"),
         audit' = audit \/ (q \in Writes /\ audit' = audit \cup {q} /\ InBatch(q, "applied")),
         call' = call \/ (\E c \in Calls : Fresh(q, r, c)),
         r.at # "idle", RouteOf(q, r), q \in Applies => CheckOf(r),
         q \in Writes /\ call[q] # None =>
           /\ r.plan = req[q].plan /\ r.approval = req[q].approval
           /\ r.at \in {"sent", "audit", "ended"},
         r.at = "audit" => InBatch(q, "applied")
  PROVE  IInv'
<1> USE DEF IInv
<1>1. /\ UNCHANGED <<running, saved, source, writable, outside, faults>>
      /\ req'[q] = r /\ \A w \in Requests : w # q => req'[w] = req[w]
      /\ Writes \subseteq Requests /\ Applies \subseteq Writes
      /\ Approves \subseteq Requests /\ Preflights \subseteq Requests
  BY DEF adc, bounds, TypeOK, Requests, Writes
\* Batches go on as before, and a new one has none of the parts of its plan.
<1>2. ASSUME NEW w \in Writes, call[w] # None
      PROVE  /\ call'[w] = call[w] /\ Made(w)' = Made(w)
             /\ req'[w].plan = req[w].plan /\ req'[w].approval = req[w].approval
             /\ req'[w].at \in {"sent", "audit", "ended"}
  <2>1. call'[w] = call[w]
    BY <1>2 DEF TypeOK, Fresh
  <2>2. CASE w # q
    BY <1>1, <1>2, <2>1, <2>2 DEF Made, Asked
  <2>3. CASE w = q
    BY <1>1, <1>2, <2>1, <2>3 DEF Made
  <2> QED BY <2>2, <2>3
<1>3. ASSUME NEW w \in Writes, call[w] = None, call'[w] # None
      PROVE  /\ w = q /\ call'[q].at = "run" /\ call'[q].before = Present(r.plan)
             /\ TodoOf(q, r.plan, call'[q]) /\ r.at = "sent"
             /\ q \in Applies => Made(q)' = {} /\ call'[q].src = approvals[r.approval].fp.src
  <2>1. PICK c \in Calls : Fresh(q, r, c)
    BY <1>3
  <2>2. w = q /\ call'[q] = c
    BY <1>3, <2>1 DEF Fresh, TypeOK
  <2> QED BY <1>1, <2>1, <2>2 DEF Fresh, Made
<1>4. call' \in [Writes -> Calls \cup {None}]
  BY DEF TypeOK, Fresh
<1>5. \A a \in Approves : approvals[a] # None => approvals'[a] = approvals[a]
  BY DEF RowsOnce
<1>6. \A v \in Preflights : previews[v] # None => previews'[v] = previews[v]
  BY DEF RowsOnce
<1>7. TypeOK'
  <2>1. req' \in [Requests -> ReqStates]
    BY DEF TypeOK
  <2>2. audit' \subseteq Writes
    BY DEF TypeOK
  <2> QED BY <1>1, <1>4, <2>1, <2>2 DEF TypeOK, Config
<1>8. Routes'
  BY <1>1 DEF Routes
<1>9. RowsOnce'
  BY <1>1 DEF RowsOnce
<1>10. Checked'
  BY <1>1, <1>5, <1>6 DEF Checked, CheckOf
<1>11. Asked'
  <2>1. \A w \in Writes : call'[w] # None => req'[w].at \in {"sent", "audit", "ended"}
    BY <1>1, <1>2, <1>3
  <2>2. ASSUME NEW w \in Applies, call'[w] # None, call'[w].at = "run"
        PROVE  call'[w].src = approvals'[req'[w].approval].fp.src
    <3>1. CASE call[w] # None
      <4>1. call[w].src = approvals[req[w].approval].fp.src
        BY <1>1, <1>2, <2>2, <3>1 DEF Asked, InBatch
      <4>2. req[w].at # "idle"
        BY <1>1, <3>1 DEF Asked
      <4>3. req[w].approval \in Approves /\ approvals[req[w].approval] # None
        BY <4>2 DEF Checked, CheckOf
      <4> QED BY <1>1, <1>2, <1>5, <3>1, <4>1, <4>3
    <3>2. CASE call[w] = None
      <4>1. w = q /\ call'[q].src = approvals[r.approval].fp.src
        BY <1>1, <1>3, <2>2, <3>2
      <4>2. r.approval \in Approves /\ approvals[r.approval] # None
        BY <4>1 DEF CheckOf
      <4> QED BY <1>1, <1>5, <4>1, <4>2
    <3> QED BY <3>1, <3>2
  <2>3. ASSUME NEW w \in Writes, w \in audit' \/ req'[w].at = "audit"
        PROVE  call'[w] # None /\ call'[w].at = "applied"
    <3>1. call[w] # None /\ call[w].at = "applied"
      BY <1>1, <2>3 DEF Asked, InBatch
    <3> QED BY <1>2, <3>1
  <2> QED BY <2>1, <2>2, <2>3 DEF Asked, InBatch
<1>12. Todo'
  <2> SUFFICES ASSUME NEW w \in Writes, call'[w] # None
               PROVE  TodoOf(w, req'[w].plan, call'[w])
    BY DEF Todo
  <2>1. CASE call[w] # None
    BY <1>2, <2>1 DEF Todo
  <2>2. CASE call[w] = None
    BY <1>1, <1>3, <2>2
  <2> QED BY <2>1, <2>2
<1>13. OwnedIsMade'
  <2> SUFFICES ASSUME NEW o \in DOMAIN running, NEW w \in Writes, running[o].owner = w
               PROVE  /\ w \in Applies /\ call'[w] # None
                      /\ \E k \in Parts(req'[w].plan) :
                           /\ o = Obj(req'[w].plan, k)
                           /\ running[o].ref =
                                Ref(req'[w].plan, approvals'[req'[w].approval].fp.src, k)
                           /\ k \in Made(w)' \/ ~ call'[w].clean
    BY <1>1 DEF OwnedIsMade
  <2>1. /\ w \in Applies /\ call[w] # None
        /\ \E k \in Parts(req[w].plan) :
             /\ o = Obj(req[w].plan, k)
             /\ running[o].ref = Ref(req[w].plan, approvals[req[w].approval].fp.src, k)
             /\ k \in Made(w) \/ ~ call[w].clean
    BY DEF OwnedIsMade
  <2>2. req[w].approval \in Approves /\ approvals[req[w].approval] # None
    BY <1>1, <2>1 DEF Asked, Checked, CheckOf
  <2>3. approvals'[req'[w].approval] = approvals[req[w].approval]
    BY <1>2, <1>5, <2>1, <2>2
  <2> QED BY <1>2, <2>1, <2>3
<1>14. \A o : Disturbed(o) => Disturbed(o)'
  BY <1>2, <1>4, NoneAssumption DEF Disturbed
<1>15. MadeStands'
  <2> SUFFICES ASSUME NEW w \in Applies, call'[w] # None, ~ call'[w].lost, NEW k \in Made(w)',
                      NEW o, o = Obj(req'[w].plan, k)
               PROVE  \/ /\ Has(running, o, w)
                         /\ call'[w].at = "applied" => Has(saved, o, w)
                      \/ Disturbed(o)'
    BY <1>1 DEF MadeStands, InBatch, Disturbed
  <2>1. call[w] # None
    BY <1>1, <1>3
  <2>2. /\ call'[w] = call[w] /\ Made(w)' = Made(w) /\ req'[w].plan = req[w].plan
    BY <1>1, <1>2, <2>1
  <2>3. \/ /\ Has(running, o, w)
           /\ call[w].at = "applied" => Has(saved, o, w)
        \/ Disturbed(o)
    BY <2>1, <2>2 DEF MadeStands, InBatch
  <2> QED BY <1>14, <2>2, <2>3
<1>16. BeforeIsOlder'
  <2> SUFFICES ASSUME NEW w \in Applies, call'[w] # None, NEW e \in call'[w].before
               PROVE  /\ e[2] # w
                      /\ e[2] \notin Writes => e[2] <= outside
                      /\ e[2] \in Applies => call'[e[2]] # None
                      /\ e[2] \in Applies /\ call'[e[2]].at = "run" =>
                           \A k \in Parts(req'[e[2]].plan) :
                             e[1] = Obj(req'[e[2]].plan, k) => k \in Made(e[2])'
    BY <1>1 DEF BeforeIsOlder, InBatch
  <2>1. /\ e[2] # w
        /\ e[2] \notin Writes => e[2] <= outside
        /\ e[2] \in Applies => call[e[2]] # None
        /\ e[2] \in Applies /\ call[e[2]] # None /\ call[e[2]].at = "run" =>
             \A k \in Parts(req[e[2]].plan) :
               e[1] = Obj(req[e[2]].plan, k) => k \in Made(e[2])
    <3>1. CASE call[w] # None
      <4>1. call[w] # None /\ e \in call[w].before
        BY <1>1, <1>2, <3>1
      <4> QED BY <4>1 DEF BeforeIsOlder, InBatch
    <3>2. CASE call[w] = None
      <4>1. w = q /\ e \in Present(r.plan)
        BY <1>1, <1>3, <3>2
      <4>2. PICK o \in DOMAIN running : e = <<o, running[o].owner>>
        BY <4>1 DEF Present
      <4>3. e[1] = o /\ e[2] = running[o].owner
        BY <4>2
      <4>4. e[2] \in Writes \cup 0..outside
        BY <4>3 DEF TypeOK, Config
      <4>5. e[2] \in Writes =>
              /\ e[2] \in Applies /\ call[e[2]] # None
              /\ \E k \in Parts(req[e[2]].plan) :
                   /\ o = Obj(req[e[2]].plan, k)
                   /\ k \in Made(e[2]) \/ ~ call[e[2]].clean
        BY <4>3 DEF OwnedIsMade
      <4>6. e[2] \notin Writes => e[2] <= outside
        BY <4>4 DEF TypeOK
      <4>7. e[2] # w
        BY <1>1, <3>2, <4>5
      <4>8. ASSUME e[2] \in Applies, call[e[2]] # None, call[e[2]].at = "run",
                   NEW k \in Parts(req[e[2]].plan), e[1] = Obj(req[e[2]].plan, k)
            PROVE  k \in Made(e[2])
        <5>1. call[e[2]].clean
          BY <1>1, <4>8, CallTyped DEF TodoOf
        <5>2. PICK j \in Parts(req[e[2]].plan) : o = Obj(req[e[2]].plan, j) /\ j \in Made(e[2])
          BY <1>1, <4>5, <4>8, <5>1
        <5>3. k \in 1..3 /\ j \in 1..3
          BY SizeTyped
        <5>4. Obj(req[e[2]].plan, k) = Obj(req[e[2]].plan, j)
          BY <4>3, <4>8, <5>2
        <5>5. k = j
          BY <5>3, <5>4, KindIsPart
        <5> QED BY <5>2, <5>5
      <4> QED BY <1>1, <4>5, <4>6, <4>7, <4>8
    <3> QED BY <3>1, <3>2
  <2> QED BY <1>1, <1>2, <2>1
<1>17. MadeIsNew'
  <2> SUFFICES ASSUME NEW w \in Applies, call'[w] # None, ~ call'[w].lost, NEW k \in Made(w)',
                      NEW e \in call'[w].before, e[1] = Obj(req'[w].plan, k)
               PROVE  ~ Has(running, e[1], e[2])
    BY <1>1 DEF MadeIsNew
  <2>1. call[w] # None
    BY <1>1, <1>3
  <2>2. call'[w] = call[w] /\ Made(w)' = Made(w) /\ req'[w].plan = req[w].plan
    BY <1>1, <1>2, <2>1
  <2> QED BY <2>1, <2>2 DEF MadeIsNew
<1> QED BY <1>7, <1>8, <1>9, <1>10, <1>11, <1>12, <1>13, <1>15, <1>16, <1>17

\* A request starts with what its endpoint has checked.
LEMMA BeginKeeps ==
  ASSUME IInv, NEW q \in Requests, Idle(q), NEW step \in {"profiles", "policies"},
         step = "policies" <=> q \in Rollbacks, NEW p \in Plans,
         NEW a \in Approves \cup {None}, NEW v \in Preflights \cup {None},
         q \in Preflights => a \in Approves,
         q \in Applies => /\ a \in Approves /\ approvals[a] # None /\ p = approvals[a].plan
                          /\ v \in Preflights /\ previews[v] # None
                          /\ previews[v].status = "ready-for-apply" /\ previews[v].approval = a,
         Begin(q, step, p, a, v),
         UNCHANGED <<adc, writable, tables, expired, call, bounds>>
  PROVE  IInv'
<1> DEFINE r == [at |-> step, plan |-> p, approval |-> a, preview |-> v, src |-> 0]
<1>1. /\ r \in ReqStates /\ r.at = step /\ r.plan = p /\ r.approval = a /\ r.preview = v
      /\ req' = [req EXCEPT ![q] = r]
  BY DEF ReqStates, Steps, Begin
<1> HIDE DEF r
<1>2. /\ UNCHANGED <<adc, writable, bounds, approvals, previews, audit, call>>
      /\ req[q].at = "idle"
  BY DEF tables, Idle, At
<1>3. /\ approvals' \in [Approves -> Approvals \cup {None}]
      /\ previews' \in [Preflights -> Previews \cup {None}]
  BY <1>2 DEF IInv, TypeOK
<1>4. RouteOf(q, r)
  BY <1>1 DEF RouteOf
<1>5. q \in Applies => CheckOf(r)
  BY <1>1 DEF CheckOf
<1>6. q \in Writes => call[q] = None
  BY <1>2 DEF IInv, Asked
<1>7. r.at # "idle" /\ r.at # "audit" /\ req[q].at # "ended"
  BY <1>1, <1>2
<1> QED BY <1>1, <1>2, <1>3, <1>4, <1>5, <1>6, <1>7, RequestKeeps

LEMMA OperatorsKeep ==
  ASSUME IInv, Operators
  PROVE  IInv'
<1>1. /\ approvals \in [Approves -> Approvals \cup {None}]
      /\ \A a \in Approves : approvals[a] # None => approvals[a].plan \in Plans
  BY DEF IInv, TypeOK, Approvals
<1>2. /\ Approves \cup Preflights \cup Applies \cup Rollbacks \subseteq Requests
      /\ \A q \in Approves : q \notin Preflights /\ q \notin Applies /\ q \notin Rollbacks
      /\ \A q \in Preflights : q \notin Applies /\ q \notin Rollbacks
      /\ \A q \in Rollbacks : q \notin Applies /\ q \notin Preflights
      /\ \A q \in Applies : q \notin Preflights /\ q \notin Rollbacks
  BY DEF Requests, Writes
<1>3. ASSUME NEW q \in Approves, NEW p \in Plans, Approve(q, p)
      PROVE  IInv'
  <2>1. /\ Idle(q) /\ Begin(q, "profiles", p, None, None)
        /\ UNCHANGED <<adc, writable, tables, expired, call, bounds>>
    BY <1>3 DEF Approve
  <2> QED BY <1>2, <1>3, <2>1, BeginKeeps
<1>4. ASSUME NEW q \in Preflights, NEW a \in Approves, Preflight(q, a)
      PROVE  IInv'
  <2>1. /\ Idle(q) /\ Begin(q, "profiles", approvals[a].plan, a, None)
        /\ UNCHANGED <<adc, writable, tables, expired, call, bounds>>
    BY <1>4 DEF Preflight
  <2>2. approvals[a].plan \in Plans
    BY <1>1, <1>4 DEF Preflight, Valid
  <2> QED BY <1>2, <1>4, <2>1, <2>2, BeginKeeps
<1>5. ASSUME NEW q \in Applies, NEW a \in Approves, NEW v \in Preflights, Apply(q, a, v)
      PROVE  IInv'
  <2>1. /\ Idle(q) /\ Begin(q, "profiles", approvals[a].plan, a, v)
        /\ approvals[a] # None /\ previews[v] # None
        /\ previews[v].status = "ready-for-apply" /\ previews[v].approval = a
        /\ UNCHANGED <<adc, writable, tables, expired, call, bounds>>
    BY <1>5 DEF Apply, Valid
  <2>2. approvals[a].plan \in Plans
    BY <1>1, <2>1
  <2> QED BY <1>2, <1>5, <2>1, <2>2, BeginKeeps
<1>6. ASSUME NEW q \in Rollbacks, NEW a \in Approves, NEW v \in Preflights, Rollback(q, a, v)
      PROVE  IInv'
  <2>1. /\ Idle(q) /\ Begin(q, "policies", approvals[a].plan, a, v)
        /\ UNCHANGED <<adc, writable, tables, expired, call, bounds>>
    BY <1>6 DEF Rollback
  <2>2. approvals[a].plan \in Plans
    BY <1>1, <1>6 DEF Rollback
  <2> QED BY <1>2, <1>6, <2>1, <2>2, BeginKeeps
<1> QED BY <1>3, <1>4, <1>5, <1>6 DEF Operators

\* A request that goes on keeps what it was given.
LEMMA Going ==
  ASSUME IInv, NEW q \in Requests, req[q].at # "idle", NEW step \in Steps \ {"idle", "policies"},
         step \in {"profiles", "targets"} => q \notin Rollbacks,
         step \in {"sent", "audit"} => q \in Writes,
         \/ GoTo(q, step)
         \/ End(q) /\ step = "ended"
         \/ req' = [req EXCEPT ![q].at = "targets", ![q].src = source] /\ step = "targets"
  PROVE  \E r \in ReqStates :
           /\ req' = [req EXCEPT ![q] = r]
           /\ r.at = step /\ r.plan = req[q].plan /\ r.approval = req[q].approval
           /\ RouteOf(q, r)
           /\ q \in Applies => CheckOf(r)
<1>1. req[q] \in ReqStates /\ req \in [Requests -> ReqStates] /\ source \in Nat /\ step \in Steps
  BY DEF IInv, TypeOK
<1>2. RouteOf(q, req[q])
  BY DEF IInv, Routes
<1>3. q \in Applies => CheckOf(req[q])
  BY DEF IInv, Checked
<1>4. \E n \in Nat : req' = [req EXCEPT ![q] = [req[q] EXCEPT !.at = step, !.src = n]]
  <2>1. CASE GoTo(q, step)
    <3>1. [req[q] EXCEPT !.at = step] = [req[q] EXCEPT !.at = step, !.src = req[q].src]
      BY <1>1 DEF ReqStates
    <3>2. req' = [req EXCEPT ![q] = [req[q] EXCEPT !.at = step]]
      BY <2>1 DEF GoTo
    <3>3. req[q].src \in Nat
      BY <1>1 DEF ReqStates
    <3> QED BY <3>1, <3>2, <3>3
  <2>2. CASE End(q) /\ step = "ended"
    <3>1. req' = [req EXCEPT ![q] = [req[q] EXCEPT !.at = "ended", !.src = 0]]
      BY <2>2 DEF End
    <3> QED BY <2>2, <3>1
  <2>3. CASE req' = [req EXCEPT ![q].at = "targets", ![q].src = source] /\ step = "targets"
    <3>1. req' = [req EXCEPT ![q] = [req[q] EXCEPT !.at = "targets", !.src = source]]
      BY <1>1, <2>3
    <3> QED BY <1>1, <2>3, <3>1
  <2> QED BY <2>1, <2>2, <2>3
<1>5. PICK n \in Nat : req' = [req EXCEPT ![q] = [req[q] EXCEPT !.at = step, !.src = n]]
  BY <1>4
<1>6. PICK r \in ReqStates :
        /\ req' = [req EXCEPT ![q] = r]
        /\ r.at = step /\ r.plan = req[q].plan /\ r.approval = req[q].approval
        /\ r.preview = req[q].preview
  <2> DEFINE d == [req[q] EXCEPT !.at = step, !.src = n]
  <2>1. d \in ReqStates /\ d.at = step /\ d.plan = req[q].plan /\ d.approval = req[q].approval
        /\ d.preview = req[q].preview
    BY <1>1 DEF ReqStates
  <2>2. req' = [req EXCEPT ![q] = d]
    BY <1>5
  <2> HIDE DEF d
  <2> QED BY <2>1, <2>2
<1>7. RouteOf(q, r)
  BY <1>2, <1>6 DEF RouteOf
<1>8. q \in Applies => CheckOf(r)
  BY <1>3, <1>6 DEF CheckOf
<1> QED BY <1>6, <1>7, <1>8

\* A step that writes no row and asks for no batch.
LEMMA GoKeeps ==
  ASSUME IInv, NEW q \in Requests, req[q].at \notin {"idle", "ended"},
         NEW step \in Steps \ {"idle", "policies"},
         step \in {"profiles", "targets"} => q \notin Rollbacks,
         step \in {"sent", "audit"} => q \in Writes,
         step = "audit" => InBatch(q, "applied"),
         q \in Writes /\ call[q] # None => step \in {"sent", "audit", "ended"},
         \/ GoTo(q, step)
         \/ End(q) /\ step = "ended"
         \/ req' = [req EXCEPT ![q].at = "targets", ![q].src = source] /\ step = "targets",
         UNCHANGED <<adc, writable, bounds, approvals, previews, call>>,
         audit' = audit \/ (q \in Writes /\ audit' = audit \cup {q} /\ InBatch(q, "applied"))
  PROVE  IInv'
<1>1. /\ approvals' \in [Approves -> Approvals \cup {None}]
      /\ previews' \in [Preflights -> Previews \cup {None}]
  BY DEF IInv, TypeOK
<1>2. PICK r \in ReqStates :
        /\ req' = [req EXCEPT ![q] = r]
        /\ r.at = step /\ r.plan = req[q].plan /\ r.approval = req[q].approval
        /\ RouteOf(q, r)
        /\ q \in Applies => CheckOf(r)
  BY Going
<1> QED BY <1>1, <1>2, RequestKeeps

LEMMA StepNames ==
  /\ "ended" \in Steps \ {"idle", "policies"} /\ "ended" # "audit" /\ "ended" # "sent"
  /\ "ended" # "profiles" /\ "ended" # "targets"
  /\ "targets" \in Steps \ {"idle", "policies"} /\ "targets" # "audit" /\ "targets" # "sent"
  /\ "audit" \in Steps \ {"idle", "policies"} /\ "audit" # "profiles" /\ "audit" # "targets"
  BY DEF Steps

LEMMA ReadProfilesKeeps ==
  ASSUME IInv, NEW q \in Requests, ReadProfiles(q)
  PROVE  IInv'
<1>1. /\ req[q].at = "profiles"
      /\ UNCHANGED <<adc, writable, bounds, approvals, previews, audit, call>>
  BY DEF ReadProfiles, At, tables
<1>2. q \notin Rollbacks /\ (q \in Writes => call[q] = None)
  BY <1>1 DEF IInv, Routes, RouteOf, Asked
<1>3. CASE req' = [req EXCEPT ![q].at = "ended"]
  <2>1. GoTo(q, "ended")
    BY <1>3 DEF GoTo
  <2> QED BY <1>1, <1>2, <2>1, StepNames, GoKeeps
<1>4. CASE req' = [req EXCEPT ![q].at = "targets", ![q].src = source]
  <2> QED BY <1>1, <1>2, <1>4, StepNames, GoKeeps
<1> QED BY <1>3, <1>4 DEF ReadProfiles

LEMMA AnswerKeeps ==
  ASSUME IInv, NEW q \in Writes, Answer(q) \/ Timeout(q)
  PROVE  IInv'
<1>1. /\ req[q].at = "sent" /\ q \in Requests
      /\ UNCHANGED <<adc, writable, bounds, approvals, previews, audit, call>>
  BY DEF Answer, Timeout, At, tables, Requests
<1>2. CASE GoTo(q, "audit") /\ InBatch(q, "applied")
  BY <1>1, <1>2, StepNames, GoKeeps
<1>3. CASE GoTo(q, "ended")
  BY <1>1, <1>3, StepNames, GoKeeps
<1>4. CASE End(q)
  <2>1. "ended" = "ended"
    OBVIOUS
  <2> QED BY <1>1, <1>4, <2>1, StepNames, GoKeeps
<1> QED BY <1>2, <1>3, <1>4 DEF Answer, Timeout, Ended, InBatch

LEMMA AuditKeeps ==
  ASSUME IInv, NEW q \in Requests, Audit(q) \/ AuditFails(q)
  PROVE  IInv'
<1>1. /\ req[q].at = "audit" /\ End(q)
      /\ UNCHANGED <<adc, writable, bounds, approvals, previews, call>>
      /\ audit' = audit \/ audit' = audit \cup {q}
  BY DEF Audit, AuditFails, At, tables
<1>2. q \in Writes
  BY <1>1 DEF IInv, Routes, RouteOf
<1>3. InBatch(q, "applied")
  BY <1>1, <1>2 DEF IInv, Asked
<1> QED BY <1>1, <1>2, <1>3, GoKeeps DEF Steps

LEMMA FingerprintTyped ==
  ASSUME IInv, NEW q \in Requests
  PROVE  Fingerprint(q) \in Fingerprints /\ Fingerprint(q).src = req[q].src
<1>1. req[q].src \in Nat
  BY DEF IInv, TypeOK, ReqStates
<1>2. SignatureCheck(req[q].plan) \in {"not-requested", "passed", "failed"}
  BY DEF SignatureCheck
<1> QED BY <1>1, <1>2 DEF Fingerprint, Fingerprints

LEMMA SaveApprovalKeeps ==
  ASSUME IInv, NEW q \in Requests, SaveApproval(q)
  PROVE  IInv'
<1>1. /\ q \in Approves /\ req[q].at = "targets" /\ End(q)
      /\ approvals' = [approvals EXCEPT ![q] = [plan |-> req[q].plan, fp |-> Fingerprint(q)]]
      /\ UNCHANGED <<adc, writable, previews, audit, call, bounds>>
  BY DEF SaveApproval, At
<1>2. req[q].plan \in Plans
  BY <1>1 DEF IInv, Routes, RouteOf
<1>3. [plan |-> req[q].plan, fp |-> Fingerprint(q)] \in Approvals
  BY <1>2, FingerprintTyped DEF Approvals
<1>4. /\ approvals' \in [Approves -> Approvals \cup {None}]
      /\ previews' \in [Preflights -> Previews \cup {None}]
      /\ \A a \in Approves : approvals'[a] = approvals[a] \/ a = q
  BY <1>1, <1>3 DEF IInv, TypeOK
<1>5. q \notin Writes
  BY <1>1
<1>6. PICK r \in ReqStates :
        /\ req' = [req EXCEPT ![q] = r]
        /\ r.at = "ended" /\ RouteOf(q, r)
        /\ q \in Applies => CheckOf(r)
  BY <1>1, Going DEF Steps
<1> QED BY <1>1, <1>4, <1>5, <1>6, RequestKeeps

LEMMA SavePreviewKeeps ==
  ASSUME IInv, NEW q \in Requests, SavePreview(q)
  PROVE  IInv'
<1> DEFINE row == [approval |-> req[q].approval, status |-> PreviewStatus(q)]
<1>1. /\ q \in Preflights /\ req[q].at = "targets" /\ End(q)
      /\ previews' = [previews EXCEPT ![q] = row]
      /\ UNCHANGED <<adc, writable, approvals, audit, call, bounds>>
  BY DEF SavePreview, At
<1>2. req[q].approval \in Approves
  BY <1>1 DEF IInv, Routes, RouteOf
<1>3. PreviewStatus(q) \in Statuses
  BY DEF PreviewStatus, Statuses
<1>4. row \in Previews
  BY <1>2, <1>3 DEF Previews
<1> HIDE DEF row
<1>5. /\ previews' \in [Preflights -> Previews \cup {None}]
      /\ approvals' \in [Approves -> Approvals \cup {None}]
      /\ \A v \in Preflights : previews'[v] = previews[v] \/ v = q
  BY <1>1, <1>4 DEF IInv, TypeOK
<1>6. q \notin Writes
  BY <1>1
<1>7. PICK r \in ReqStates :
        /\ req' = [req EXCEPT ![q] = r]
        /\ r.at = "ended" /\ RouteOf(q, r)
        /\ q \in Applies => CheckOf(r)
  BY <1>1, Going DEF Steps
<1> QED BY <1>1, <1>5, <1>6, <1>7, RequestKeeps

\* The call the adapter gets.
LEMMA Asking ==
  ASSUME IInv, NEW q \in Writes, req[q].at # "idle", NEW b \in Seq(Commands), Ask(q, b)
  PROVE  \E c \in Calls :
           /\ call' = [call EXCEPT ![q] = c]
           /\ c.at = "run" /\ c.todo = b /\ c.src = req[q].src
           /\ c.clean /\ ~ c.lost /\ c.before = Present(req[q].plan)
<1> DEFINE c == [at |-> "run", todo |-> b, src |-> req[q].src, lost |-> FALSE, clean |-> TRUE,
                 before |-> Present(req[q].plan)]
<1>1. req[q].src \in Nat
  BY DEF IInv, TypeOK, ReqStates, Requests
<1>2. Config(running) /\ outside \in 0..MaxOutside
  BY DEF IInv, TypeOK
<1>3. Writes \cup 0..outside \subseteq Owners
  BY <1>2 DEF Owners
<1>4. Present(req[q].plan) \subseteq Objects \X Owners
  BY <1>2, <1>3 DEF Present, Config
<1>5. c \in Calls
  BY <1>1, <1>4 DEF Calls, Commands
<1>6. call' = [call EXCEPT ![q] = c]
  BY DEF Ask
<1>7. /\ c.at = "run" /\ c.todo = b /\ c.src = req[q].src
      /\ c.clean /\ ~ c.lost /\ c.before = Present(req[q].plan)
  OBVIOUS
<1> HIDE DEF c
<1> QED BY <1>5, <1>6, <1>7

LEMMA SendApplyKeeps ==
  ASSUME IInv, NEW q \in Requests, SendApply(q)
  PROVE  IInv'
<1> DEFINE p == req[q].plan
<1>1. /\ q \in Applies /\ q \in Writes /\ q \notin Rollbacks /\ req[q].at = "targets"
      /\ UNCHANGED <<adc, writable, bounds, approvals, previews, audit>>
  BY DEF SendApply, At, tables, Writes
<1>2. call[q] = None
  BY <1>1 DEF IInv, Asked
<1>3. CASE End(q) /\ UNCHANGED call
  BY <1>1, <1>2, <1>3, StepNames, GoKeeps
<1>4. CASE /\ Fingerprint(q) = approvals[req[q].approval].fp
           /\ GoTo(q, "sent") /\ Ask(q, CreateBatch(p))
  <2>1. PICK c \in Calls :
          /\ call' = [call EXCEPT ![q] = c]
          /\ c.at = "run" /\ c.todo = CreateBatch(p) /\ c.src = req[q].src
          /\ c.clean /\ ~ c.lost /\ c.before = Present(p)
    BY <1>1, <1>4, CreateBatchIs, Asking
  <2>2. PICK r \in ReqStates :
          /\ req' = [req EXCEPT ![q] = r]
          /\ r.at = "sent" /\ r.plan = p /\ r.approval = req[q].approval
          /\ RouteOf(q, r)
          /\ q \in Applies => CheckOf(r)
    BY <1>1, <1>4, Going DEF Steps
  <2>3. c.src = approvals[r.approval].fp.src
    BY <1>4, <2>1, <2>2, FingerprintTyped
  <2>4. Size(p) \in Nat
    BY SizeTyped
  <2>5. Len(c.todo) = Size(p) + 1 /\ c.todo = Rest(p, 1) /\ 1 \in 1..(Size(p) + 1)
    BY <2>1, <2>4, CreateBatchIs, RestIs
  <2>6. MadeOf(p, c) = {}
    <3>1. Size(p) + 1 - Len(c.todo) = 0
      BY <2>4, <2>5
    <3> QED BY <2>1, <3>1 DEF MadeOf
  <2>7. TodoOf(q, p, c)
    BY <1>1, <2>1, <2>5 DEF TodoOf
  <2>8. Fresh(q, r, c)
    BY <1>1, <1>2, <2>1, <2>2, <2>3, <2>6, <2>7 DEF Fresh
  <2>9. /\ approvals' \in [Approves -> Approvals \cup {None}]
        /\ previews' \in [Preflights -> Previews \cup {None}]
    BY <1>1 DEF IInv, TypeOK
  <2> HIDE DEF p
  <2> QED BY <1>1, <1>2, <2>2, <2>8, <2>9, RequestKeeps
<1> QED BY <1>3, <1>4 DEF SendApply

LEMMA RollbackBatchIs ==
  ASSUME NEW p
  PROVE  /\ RollbackBatch(p) \in Seq(Commands) /\ RollbackBatch(p) # <<>>
         /\ \A i \in DOMAIN RollbackBatch(p) :
              RollbackBatch(p)[i] \in {Rm(k) : k \in Parts(p)} \cup {Save}
<1> DEFINE s == Removals(Size(p))
<1>1. Size(p) \in 0..3 /\ Parts(p) = 1..Size(p)
  BY SizeTyped
<1>2. s \in Seq(Commands) /\ Len(s) = Size(p)
  BY <1>1, RemovalsAre
<1>3. \A i \in 1..Size(p) : s[i] = Rm(Size(p) + 1 - i) /\ Size(p) + 1 - i \in Parts(p)
  BY <1>1 DEF Removals
<1>4. Save \in Commands
  BY DEF Save, Commands
<1> HIDE DEF s
<1>5. /\ Append(s, Save) \in Seq(Commands) /\ Len(Append(s, Save)) = Size(p) + 1
      /\ \A i \in 1..(Size(p) + 1) : Append(s, Save)[i] = IF i <= Size(p) THEN s[i] ELSE Save
  BY <1>1, <1>2, <1>4
<1>6. RollbackBatch(p) = Append(s, Save)
  BY DEF RollbackBatch, s
<1>7. Len(<<>>) = 0
  OBVIOUS
<1>8. Append(s, Save) # <<>>
  BY <1>1, <1>5, <1>7
<1>9. \A i \in 1..(Size(p) + 1) : Append(s, Save)[i] \in {Rm(k) : k \in Parts(p)} \cup {Save}
  BY <1>1, <1>3, <1>5
<1>10. DOMAIN Append(s, Save) = 1..(Size(p) + 1)
  BY <1>5
<1> QED BY <1>5, <1>6, <1>8, <1>9, <1>10

LEMMA SendRollbackKeeps ==
  ASSUME IInv, NEW q \in Requests, SendRollback(q)
  PROVE  IInv'
<1> DEFINE p == req[q].plan
<1>1. /\ req[q].at = "policies"
      /\ UNCHANGED <<adc, writable, bounds, approvals, previews, audit>>
  BY DEF SendRollback, At, tables
<1>2. q \in Rollbacks /\ q \in Writes /\ q \notin Applies
  BY <1>1 DEF IInv, Routes, RouteOf, Writes
<1>3. call[q] = None
  BY <1>1, <1>2 DEF IInv, Asked
<1>4. CASE End(q) /\ UNCHANGED call
  BY <1>1, <1>3, <1>4, StepNames, GoKeeps
<1>5. CASE GoTo(q, "sent") /\ Ask(q, RollbackBatch(p))
  <2>1. PICK c \in Calls :
          /\ call' = [call EXCEPT ![q] = c]
          /\ c.at = "run" /\ c.todo = RollbackBatch(p) /\ c.src = req[q].src
          /\ c.clean /\ ~ c.lost /\ c.before = Present(p)
    BY <1>1, <1>2, <1>5, RollbackBatchIs, Asking
  <2>2. PICK r \in ReqStates :
          /\ req' = [req EXCEPT ![q] = r]
          /\ r.at = "sent" /\ r.plan = p /\ r.approval = req[q].approval
          /\ RouteOf(q, r)
          /\ q \in Applies => CheckOf(r)
    BY <1>1, <1>2, <1>5, Going DEF Steps
  <2>3. TodoOf(q, p, c)
    BY <1>2, <2>1, RollbackBatchIs DEF TodoOf
  <2>4. Fresh(q, r, c)
    BY <1>2, <1>3, <2>1, <2>2, <2>3 DEF Fresh
  <2>5. /\ approvals' \in [Approves -> Approvals \cup {None}]
        /\ previews' \in [Preflights -> Previews \cup {None}]
    BY <1>1 DEF IInv, TypeOK
  <2> HIDE DEF p
  <2> QED BY <1>1, <1>2, <1>3, <2>2, <2>4, <2>5, RequestKeeps
<1> QED BY <1>4, <1>5 DEF SendRollback

LEMMA NothingKeeps ==
  ASSUME IInv, UNCHANGED <<adc, writable, tables, req, call, bounds>>
  PROVE  IInv'
<1>1. UNCHANGED <<running, saved, source, writable, approvals, previews, audit, req, call,
                  outside, faults>>
  BY DEF adc, tables, bounds
<1> QED BY <1>1 DEF IInv, TypeOK, Config, Routes, RowsOnce, Checked, CheckOf, Asked, InBatch,
                    Todo, OwnedIsMade, Made, MadeStands, Has, Disturbed, BeforeIsOlder, MadeIsNew

LEMMA NextKeeps ==
  ASSUME IInv, [Next]_vars
  PROVE  IInv'
<1>1. CASE Operators
  BY <1>1, OperatorsKeep
<1>2. CASE \E q \in Requests : ControlApi(q)
  <2>1. PICK q \in Requests : ControlApi(q)
    BY <1>2
  <2> QED BY <2>1, ReadProfilesKeeps, SaveApprovalKeeps, SavePreviewKeeps, SendApplyKeeps,
             SendRollbackKeeps, AuditKeeps, AnswerKeeps DEF ControlApi
<1>3. CASE \E q \in Writes : Adapter(q)
  BY <1>3, ExecutedKeeps, RejectedKeeps, LostKeeps, SshErrorKeeps, CleanupKeeps DEF Adapter
<1>4. CASE \E a \in Approves : Expire(a)
  BY <1>4, NothingKeeps DEF Expire
<1>5. CASE OutsideChange
  BY <1>5, OutsideKeeps
<1>6. CASE UNCHANGED vars
  BY <1>6, NothingKeeps DEF vars
<1> QED BY <1>1, <1>2, <1>3, <1>4, <1>5, <1>6 DEF Next

LEMMA Starts ==
  ASSUME Init
  PROVE  IInv
<1>1. \A q \in Writes : q \in Requests /\ call[q] = None /\ req[q].at = "idle"
  BY DEF Init, Requests, Writes
<1>2. /\ outside = 0 /\ 0 \in 0..MaxOutside /\ 0 \notin Writes
      /\ DOMAIN running = {SigObj(s) : s \in Signatures} /\ saved = running
      /\ \A o \in DOMAIN running : running[o].owner = 0
  BY DEF Init, Requests
<1>3. TypeOK
  <2>1. Config(running) /\ Config(saved)
    <3>1. 0 \in 0..outside
      BY <1>2
    <3>2. DOMAIN running \subseteq Objects
      <4>1. {SigObj(s) : s \in Signatures} \subseteq Objects
        BY DEF Objects
      <4> QED BY <1>2, <4>1
    <3> QED BY <1>2, <3>1, <3>2 DEF Config
  <2>2. req \in [Requests -> ReqStates]
    BY DEF Init, ReqStates, Steps
  <2>3. /\ approvals \in [Approves -> Approvals \cup {None}]
        /\ previews \in [Preflights -> Previews \cup {None}]
        /\ call \in [Writes -> Calls \cup {None}]
    BY DEF Init
  <2> QED BY <1>2, <2>1, <2>2, <2>3 DEF TypeOK, Init
<1>4. \A q \in Requests : req[q].at = "idle"
  BY DEF Init
<1>5. Routes /\ Checked
  BY <1>1, <1>4 DEF Routes, Checked, Writes
<1>6. RowsOnce
  BY DEF Init, RowsOnce
<1>7. Asked /\ Todo
  BY <1>1 DEF Asked, Todo, InBatch, Init, Writes
<1>8. OwnedIsMade
  BY <1>2 DEF OwnedIsMade
<1>9. MadeStands /\ BeforeIsOlder /\ MadeIsNew
  BY <1>1 DEF MadeStands, BeforeIsOlder, MadeIsNew, Writes
<1> QED BY <1>3, <1>5, <1>6, <1>7, <1>8, <1>9 DEF IInv

\* The invariant holds of every reachable state: initially, and after every step.
LEMMA Invariance == Spec => []IInv
<1>1. Init => IInv
  BY Starts
<1>2. IInv /\ [Next]_vars => IInv'
  BY NextKeeps
<1> QED BY <1>1, <1>2, PTL DEF Spec

-----------------------------------------------------------------------------
(* What follows for the operator and the ADC *)

LEMMA Owned ==
  ASSUME IInv, NEW o \in DOMAIN running, NEW q \in Writes, running[o].owner = q
  PROVE  /\ q \in Applies /\ call[q] # None /\ CheckOf(req[q])
         /\ \E k \in Parts(req[q].plan) :
              /\ o = Obj(req[q].plan, k)
              /\ running[o].ref = Ref(req[q].plan, approvals[req[q].approval].fp.src, k)
              /\ k \in Made(q) \/ ~ call[q].clean
<1>1. q \in Applies /\ call[q] # None
  BY DEF IInv, OwnedIsMade
<1>2. req[q].at # "idle"
  BY <1>1 DEF IInv, Asked
<1>3. CheckOf(req[q])
  BY <1>1, <1>2 DEF IInv, Checked
<1> QED BY <1>1, <1>3 DEF IInv, OwnedIsMade

LEMMA EndedHasMade ==
  ASSUME NEW q
  PROVE  /\ InBatch(q, "failed") \/ InBatch(q, "error") => Made(q) = {}
         /\ InBatch(q, "applied") => Made(q) = Parts(req[q].plan)
  BY DEF Made, MadeOf, InBatch

\* All of what an applied creation made stands, or one of its names was disturbed.
LEMMA AppliedIsWhole ==
  ASSUME IInv, NEW q \in Applies, InBatch(q, "applied")
  PROVE  \/ \A o \in ObjectsOf(req[q].plan) : Has(running, o, q) /\ Has(saved, o, q)
         \/ \E w \in Writes \ {q} : Disturbs(w, req[q].plan)
<1>1. call[q] # None /\ call[q].at = "applied" /\ q \in Writes /\ q \notin Rollbacks
  BY DEF InBatch, Writes
<1>2. ~ call[q].lost
  BY <1>1, CallTyped DEF TodoOf
<1>3. ASSUME NEW o \in ObjectsOf(req[q].plan), ~ (Has(running, o, q) /\ Has(saved, o, q))
      PROVE  \E w \in Writes \ {q} : Disturbs(w, req[q].plan)
  <2>1. PICK k \in Parts(req[q].plan) : o = Obj(req[q].plan, k)
    BY DEF ObjectsOf
  <2>2. Disturbed(o)
    BY <1>1, <1>2, <1>3, <2>1, EndedHasMade DEF IInv, MadeStands
  <2>3. PICK w \in Writes : /\ call[w] # None /\ o \in ObjectsOf(req[w].plan)
                            /\ w \in Rollbacks \/ call[w].lost
    BY <2>2 DEF Disturbed
  <2>4. w # q
    BY <1>1, <1>2, <2>3
  <2> QED BY <2>3, <2>4 DEF Disturbs
<1> QED BY <1>3

\* Every row, request, batch and object of the ADC is what its handlers expect.
THEOREM TypeCorrect == Spec => []TypeOK
<1>1. IInv => TypeOK
  BY DEF IInv
<1> QED BY <1>1, Invariance, PTL

\* Whatever a call created belongs to a plan that was approved and passed its own
\* preflight, and refers to what the approved fingerprint was computed from.
THEOREM OnlyReviewedHolds == Spec => []OnlyReviewed
<1>1. ASSUME IInv PROVE OnlyReviewed
  <2> SUFFICES ASSUME NEW o \in DOMAIN running, running[o].owner \in Writes
               PROVE  LET r == req[running[o].owner]
                          a == approvals[r.approval]
                          v == previews[r.preview]
                      IN  /\ a # None /\ v # None
                          /\ v.status = "ready-for-apply" /\ v.approval = r.approval
                          /\ \E k \in Parts(a.plan) : /\ o = Obj(a.plan, k)
                                                      /\ running[o].ref = Ref(a.plan, a.fp.src, k)
    BY DEF OnlyReviewed
  <2> QED BY <1>1, Owned DEF CheckOf
<1> QED BY <1>1, Invariance, PTL

\* A creation that failed and was cleaned up without a failure has left nothing.
THEOREM CleanFailureHolds == Spec => []CleanFailure
<1>1. ASSUME IInv PROVE CleanFailure
  <2> SUFFICES ASSUME NEW q \in Applies, InBatch(q, "failed"), call[q].clean,
                      NEW o \in DOMAIN running, running[o].owner = q
               PROVE  FALSE
    BY DEF CleanFailure
  <2>1. q \in Writes
    BY DEF Writes
  <2> QED BY <1>1, <2>1, Owned, EndedHasMade
<1> QED BY <1>1, Invariance, PTL

\* What the audit says was applied is there and saved, unless it was disturbed.
THEOREM AppliedStandsHolds == Spec => []AppliedStands
<1>1. ASSUME IInv PROVE AppliedStands
  <2> SUFFICES ASSUME NEW q \in audit \cap Applies
               PROVE  \/ \A config \in {running, saved} : \A o \in ObjectsOf(req[q].plan) :
                            o \in DOMAIN config /\ config[o].owner = q
                      \/ \E w \in Writes \ {q} : Disturbs(w, req[q].plan)
    BY DEF AppliedStands
  <2>1. q \in Applies /\ InBatch(q, "applied")
    BY <1>1 DEF IInv, Asked, Writes
  <2> QED BY <1>1, <2>1, AppliedIsWhole DEF Has
<1> QED BY <1>1, Invariance, PTL

\* A creation whose end is known is not left half made, unless its cleanup failed
\* or somebody else has interfered.
THEOREM NoHalfProtectionHolds == Spec => []NoHalfProtection
<1>1. ASSUME IInv PROVE NoHalfProtection
  <2> SUFFICES ASSUME NEW q \in Applies, Ended(q), call[q].clean,
                      NEW x \in DOMAIN running, running[x].owner = q
               PROVE  \/ \A o \in ObjectsOf(req[q].plan) :
                           o \in DOMAIN running /\ running[o].owner = q
                      \/ \E w \in Writes \ {q} : Disturbs(w, req[q].plan)
    BY DEF NoHalfProtection
  <2>1. q \in Writes
    BY DEF Writes
  <2>2. Made(q) # {}
    BY <1>1, <2>1, Owned
  <2>3. InBatch(q, "applied")
    BY <2>2, EndedHasMade DEF Ended, InBatch
  <2> QED BY <1>1, <2>3, AppliedIsWhole DEF Has
<1> QED BY <1>1, Invariance, PTL

\* A batch that is undoing is only ever moved by the cleanup.
LEMMA OnlyCleanupCleans ==
  ASSUME IInv, [Next]_vars, NEW q \in Applies, Cleans(q)
  PROVE  Cleanup(q)
<1>1. /\ q \in Writes /\ q \in Requests /\ call[q] # None /\ call[q].at = "cleanup"
      /\ call'[q] # call[q] /\ call \in [Writes -> Calls \cup {None}]
  BY DEF Cleans, InBatch, Writes, Requests, IInv, TypeOK
<1>2. req[q].at \in {"sent", "audit", "ended"}
  BY <1>1 DEF IInv, Asked
<1>3. CASE UNCHANGED call
  BY <1>1, <1>3
<1>4. CASE \E w \in Requests : SendApply(w) \/ SendRollback(w)
  <2>1. PICK w \in Requests : SendApply(w) \/ SendRollback(w)
    BY <1>4
  <2>2. /\ UNCHANGED call \/ (\E b : Ask(w, b))
        /\ req[w].at \in {"targets", "policies"}
    BY <2>1 DEF SendApply, SendRollback, At
  <2>3. w # q
    BY <1>2, <2>2
  <2> QED BY <1>1, <2>2, <2>3 DEF Ask
<1>5. CASE \E w \in Writes : Adapter(w)
  <2>1. PICK w \in Writes : Adapter(w)
    BY <1>5
  <2>2. \E c : call' = [call EXCEPT ![w] = c]
    BY <2>1 DEF Adapter, Executed, Rejected, Lost, SshError, Cleanup, Raised
  <2>3. w = q
    BY <1>1, <2>2
  <2> QED BY <1>1, <2>1, <2>3 DEF Adapter, Executed, Rejected, Lost, SshError, InBatch
<1>6. UNCHANGED call \/ (\E w \in Requests : SendApply(w) \/ SendRollback(w))
      \/ (\E w \in Writes : Adapter(w))
  <2>1. Operators => UNCHANGED call
    BY DEF Operators, Approve, Preflight, Apply, Rollback
  <2>2. ASSUME NEW w \in Requests, ControlApi(w)
        PROVE  UNCHANGED call \/ SendApply(w) \/ SendRollback(w)
    BY <2>2 DEF ControlApi, ReadProfiles, SaveApproval, SavePreview, Audit, AuditFails, Answer,
                Timeout
  <2>3. ASSUME NEW a \in Approves, Expire(a)
        PROVE  UNCHANGED call
    BY <2>3 DEF Expire
  <2> QED BY <2>1, <2>2, <2>3 DEF Next, OutsideChange, vars
<1> QED BY <1>3, <1>4, <1>5, <1>6

\* The cleanup after a refused command spares what was there before the call.
THEOREM RejectionSparesOthersHolds == Spec => RejectionSparesOthers
<1>1. ASSUME IInv, [Next]_vars, NEW q \in Applies, Cleans(q), ~ call[q].lost,
             NEW o \in DOMAIN running \ DOMAIN running',
             <<o, running[o].owner>> \in call[q].before
      PROVE  FALSE
  <2>1. Cleanup(q) /\ q \in Writes
    BY <1>1, OnlyCleanupCleans DEF Writes
  <2>2. (Can(q) /\ Do(q)) \/ running' = running
    BY <2>1 DEF Cleanup, adc
  <2>3. PICK n \in Parts(req[q].plan) : Made(q) = 1..n /\ Command(q) = Rm(n)
    BY <1>1, <2>1, Undoing DEF Cleanup
  <2>4. n \in Made(q)
    BY <2>3, SizeTyped
  <2>5. o = Obj(req[q].plan, n)
    <3>1. Can(q) /\ Do(q)
      BY <1>1, <2>2
    <3>2. running' = Without(running, Obj(req[q].plan, n))
      BY <2>3, <3>1, Doing DEF Deletes
    <3> QED BY <1>1, <3>2 DEF Without
  <2>6. call[q] # None
    BY <1>1 DEF Cleans, InBatch
  <2>7. ~ Has(running, o, running[o].owner)
    BY <1>1, <2>4, <2>5, <2>6 DEF IInv, MadeIsNew
  <2> QED BY <1>1, <2>7 DEF Has
<1>2. IInv /\ [Next]_vars =>
        [\A q \in Applies :
           (Cleans(q) /\ ~ call[q].lost) =>
             \A o \in DOMAIN running \ DOMAIN running' :
               <<o, running[o].owner>> \notin call[q].before]_vars
  BY <1>1
<1> QED BY <1>2, Invariance, PTL DEF Spec, RejectionSparesOthers
=============================================================================
