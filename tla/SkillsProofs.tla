------------------------------ MODULE SkillsProofs ------------------------------
(***************************************************************************)
(* Proofs about Skills for any callers and harnesses, and any bounds.      *)
(* From SameFile on, a call works in the plain directory it saw by Lstat,  *)
(* whatever the name means by then; and when it renames, the SKILL.md there *)
(* is still one it may replace, or the other program changed it since.     *)
(***************************************************************************)
EXTENDS Skills, TLAPS

\* The SKILL.md of the directory a call has open is one the call may replace.
Fit(p) == skill[opened[p]] \in Own \/ (skill[opened[p]] = "missing" /\ mk[p])

CallOK(p) ==
  /\ doing[p] \in {"open", "same", "read", "rename"} => saw[p] > Theirs
  /\ doing[p] \in {"same", "read", "rename"} => opened[p] > Missing
  /\ doing[p] \in {"read", "rename"} => opened[p] = saw[p]
  /\ doing[p] = "rename" => late[p] \/ Fit(p)

IInv ==
  /\ SkillsTypeOK /\ OnlyItsOwn
  /\ \A p \in Callers : CallOK(p)

LEMMA Bounds ==
  ASSUME SkillsConstants, SkillsTypeOK
  PROVE  /\ dirs \in Nat /\ dirs <= MaxDirs /\ MaxDirs \in Nat /\ Missing = -1 /\ Theirs = 0
         /\ calls \in Nat /\ changes \in Nat /\ MaxInstalls \in Nat /\ MaxChanges \in Nat
<1>1. /\ dirs \in 0..MaxDirs /\ calls \in 0..MaxInstalls /\ changes \in 0..MaxChanges
      /\ MaxDirs \in Nat /\ MaxInstalls \in Nat /\ MaxChanges \in Nat
  BY DEF SkillsConstants, SkillsTypeOK
<1> QED
  BY <1>1 DEF Missing, Theirs

\* The directories there are, or a missing one; more of them once one is made.
LEMMA Places ==
  ASSUME SkillsConstants, SkillsTypeOK
  PROVE  /\ Missing \in Missing..dirs /\ Theirs \in Missing..dirs
         /\ dirs < MaxDirs =>
              /\ dirs + 1 \in 0..MaxDirs /\ dirs + 1 \in Missing..(dirs + 1)
              /\ dirs + 1 \in Dirs /\ dirs + 1 > Theirs
              /\ \A n \in Missing..dirs : n \in Missing..(dirs + 1)
<1>1. dirs \in Nat /\ dirs <= MaxDirs /\ MaxDirs \in Nat /\ Missing = -1 /\ Theirs = 0
  BY Bounds
<1> QED
  BY <1>1 DEF Dirs

LEMMA Starts0 ==
  ASSUME SkillsConstants, SkillsInit
  PROVE  IInv
<1>1. /\ dirs = 1 /\ name \in [Harnesses -> {Missing, Theirs, 1}]
      /\ skill \in [Dirs -> SkillFiles] /\ skill[Theirs] \in {"old", "another"}
      /\ doing = [p \in Callers |-> "idle"] /\ mk = [p \in Callers |-> FALSE]
      /\ left = [p \in Callers |-> {}]
      /\ harness = [p \in Callers |-> CHOOSE h \in Harnesses : TRUE]
      /\ saw = [p \in Callers |-> Missing] /\ opened = [p \in Callers |-> Missing]
      /\ late = [p \in Callers |-> FALSE] /\ trampled = FALSE
      /\ calls = 0 /\ changes = 0
  BY DEF SkillsInit
<1>2. SkillsTypeOK
  <2>1. dirs \in 0..MaxDirs /\ calls \in 0..MaxInstalls /\ changes \in 0..MaxChanges
    <3>1. dirs = 1 /\ calls = 0 /\ changes = 0
      BY <1>1
    <3>2. MaxDirs \in Nat \ {0} /\ MaxInstalls \in Nat /\ MaxChanges \in Nat
      BY DEF SkillsConstants
    <3> QED
      BY <3>1, <3>2
  <2>2. \A n \in {Missing, Theirs, 1} : n \in Missing..1
    BY DEF Missing, Theirs
  <2>3. name \in [Harnesses -> Missing..dirs]
    BY <1>1, <2>2
  <2>4. saw \in [Callers -> Missing..dirs] /\ opened \in [Callers -> Missing..dirs]
    BY <1>1, <2>2
  <2>5. harness \in [Callers -> Harnesses]
    <3>1. (CHOOSE h \in Harnesses : TRUE) \in Harnesses
      BY DEF SkillsConstants
    <3> QED
      BY <1>1, <3>1
  <2>6. doing \in [Callers -> Steps]
    BY <1>1 DEF Steps
  <2>7. mk \in [Callers -> BOOLEAN] /\ late \in [Callers -> BOOLEAN]
    BY <1>1
  <2>8. left \in [Callers -> SUBSET Harnesses]
    BY <1>1
  <2>9. trampled \in BOOLEAN
    BY <1>1
  <2> QED
    BY <1>1, <2>1, <2>3, <2>4, <2>5, <2>6, <2>7, <2>8, <2>9 DEF SkillsTypeOK
<1>3. OnlyItsOwn
  BY <1>1 DEF OnlyItsOwn
<1>4. ASSUME NEW p \in Callers PROVE CallOK(p)
  <2>1. doing[p] = "idle"
    BY <1>1
  <2> QED
    BY <2>1 DEF CallOK
<1> QED
  BY <1>2, <1>3, <1>4 DEF IInv

\* A call at rest, between harnesses or before a name is seen holds nothing.
LEMMA Early ==
  ASSUME NEW p, doing'[p] \in {"idle", "next", "lstat", "mkdir"}
  PROVE  CallOK(p)'
BY DEF CallOK

\* What a call rests on stays while its own places and the file there do.
LEMMA Untouched ==
  ASSUME NEW p, CallOK(p), doing'[p] = doing[p], mk'[p] = mk[p], saw'[p] = saw[p],
         opened'[p] = opened[p], late'[p] = late[p], skill' = skill
  PROVE  CallOK(p)'
BY DEF CallOK, Fit

\* A call that is done with a harness lets go of its directories.
LEMMA NextOneIs ==
  ASSUME SkillsConstants, SkillsTypeOK, NEW p \in Callers, NextOne(p)
  PROVE  /\ doing' \in [Callers -> Steps] /\ doing'[p] \in {"idle", "next"}
         /\ saw' \in [Callers -> Missing..dirs] /\ opened' \in [Callers -> Missing..dirs]
         /\ late' \in [Callers -> BOOLEAN]
         /\ \A q \in Callers \ {p} : /\ doing'[q] = doing[q] /\ saw'[q] = saw[q]
                                     /\ opened'[q] = opened[q] /\ late'[q] = late[q]
<1>1. /\ doing \in [Callers -> Steps] /\ late \in [Callers -> BOOLEAN]
      /\ saw \in [Callers -> Missing..dirs] /\ opened \in [Callers -> Missing..dirs]
  BY DEF SkillsTypeOK
<1>2. doing' \in [Callers -> Steps] /\ doing'[p] \in {"idle", "next"}
      /\ \A q \in Callers \ {p} : doing'[q] = doing[q]
  BY <1>1 DEF NextOne, Steps
<1>3. saw' \in [Callers -> Missing..dirs] /\ opened' \in [Callers -> Missing..dirs]
      /\ \A q \in Callers \ {p} : saw'[q] = saw[q] /\ opened'[q] = opened[q]
  BY <1>1, Places DEF NextOne
<1>4. late' \in [Callers -> BOOLEAN] /\ \A q \in Callers \ {p} : late'[q] = late[q]
  BY <1>1 DEF NextOne
<1> QED
  BY <1>2, <1>3, <1>4

LEMMA GoIs ==
  ASSUME SkillsTypeOK, NEW p \in Callers, NEW from, NEW to \in Steps, Go(p, from, to)
  PROVE  /\ doing[p] = from /\ doing' \in [Callers -> Steps] /\ doing'[p] = to
         /\ \A q \in Callers \ {p} : doing'[q] = doing[q]
BY DEF SkillsTypeOK, Go

\* One call moves, the others and SKILL.md stay.
LEMMA OneMoves ==
  ASSUME IInv, NEW p \in Callers, SkillsTypeOK', CallOK(p)',
         skill' = skill, trampled' = trampled, mk' = mk,
         \A q \in Callers \ {p} : /\ doing'[q] = doing[q] /\ saw'[q] = saw[q]
                                  /\ opened'[q] = opened[q] /\ late'[q] = late[q]
  PROVE  IInv'
<1>1. OnlyItsOwn'
  BY DEF IInv, OnlyItsOwn
<1>2. ASSUME NEW q \in Callers, q # p PROVE CallOK(q)'
  <2>1. CallOK(q)
    BY DEF IInv
  <2>2. /\ doing'[q] = doing[q] /\ saw'[q] = saw[q]
        /\ opened'[q] = opened[q] /\ late'[q] = late[q] /\ mk'[q] = mk[q]
    BY <1>2
  <2> QED
    BY <2>1, <2>2, Untouched
<1>3. \A q \in Callers : CallOK(q)'
  BY <1>2
<1> QED
  BY <1>1, <1>3 DEF IInv

LEMMA RelinkKeeps ==
  ASSUME SkillsConstants, IInv, NEW h \in Harnesses, Relink(h)
  PROVE  IInv'
<1>1. SkillsTypeOK
  BY DEF IInv
<1>2. UNCHANGED <<doing, mk, left, harness, saw, opened, late, trampled, calls>>
      /\ changes < MaxChanges /\ changes' = changes + 1
  BY DEF Relink, locals
<1>3. changes' \in 0..MaxChanges
  BY <1>1, <1>2, Bounds
<1>4. CASE /\ \E d \in {Missing, Theirs} \ {name[h]} : name' = [name EXCEPT ![h] = d]
           /\ UNCHANGED <<dirs, skill>>
  <2>1. name' \in [Harnesses -> Missing..dirs]
    BY <1>1, <1>4, Places DEF SkillsTypeOK
  <2>2. SkillsTypeOK'
    BY <1>1, <1>2, <1>3, <1>4, <2>1 DEF SkillsTypeOK
  <2>3. OnlyItsOwn' /\ \A p \in Callers : CallOK(p)'
    BY <1>2, <1>4 DEF IInv, OnlyItsOwn, CallOK, Fit
  <2> QED
    BY <2>2, <2>3 DEF IInv
<1>5. CASE /\ dirs < MaxDirs /\ dirs' = dirs + 1
           /\ name' = [name EXCEPT ![h] = dirs + 1]
           /\ \E f \in SkillFiles : skill' = [skill EXCEPT ![dirs + 1] = f]
  <2>1. PICK f \in SkillFiles : skill' = [skill EXCEPT ![dirs + 1] = f]
    BY <1>5
  <2>2. /\ dirs + 1 \in 0..MaxDirs /\ dirs + 1 \in Missing..(dirs + 1)
        /\ dirs + 1 \in Dirs /\ dirs + 1 > Theirs
        /\ \A n \in Missing..dirs : n \in Missing..(dirs + 1)
    BY <1>1, <1>5, Places
  <2>3. /\ name' \in [Harnesses -> Missing..(dirs + 1)]
        /\ saw' \in [Callers -> Missing..(dirs + 1)]
        /\ opened' \in [Callers -> Missing..(dirs + 1)]
    BY <1>1, <1>2, <1>5, <2>2 DEF SkillsTypeOK
  <2>4. skill' \in [Dirs -> SkillFiles]
    BY <1>1, <2>1 DEF SkillsTypeOK
  <2>5. SkillsTypeOK'
    BY <1>1, <1>2, <1>3, <1>5, <2>2, <2>3, <2>4 DEF SkillsTypeOK
  <2>6. dirs \in Nat /\ Theirs = 0 /\ Missing = -1
    BY <1>1, Bounds
  <2>7. \A d \in Missing..dirs : skill'[d] = skill[d]
    <3> SUFFICES ASSUME NEW d \in Missing..dirs PROVE skill'[d] = skill[d]
      OBVIOUS
    <3>1. d # dirs + 1
      BY <2>6
    <3> QED
      BY <1>1, <2>1, <2>6, <3>1 DEF SkillsTypeOK
  <2>8. OnlyItsOwn'
    <3>1. skill'[Theirs] = skill[Theirs]
      BY <1>1, <2>7, Places
    <3> QED
      BY <1>2, <3>1 DEF IInv, OnlyItsOwn
  <2>9. ASSUME NEW p \in Callers PROVE CallOK(p)'
    <3>1. CallOK(p) /\ opened[p] \in Missing..dirs
      BY <1>1 DEF IInv, SkillsTypeOK
    <3>2. skill'[opened[p]] = skill[opened[p]]
      BY <2>7, <3>1
    <3> QED
      BY <1>2, <3>1, <3>2 DEF CallOK, Fit
  <2> QED
    BY <2>5, <2>8, <2>9 DEF IInv
<1> QED
  BY <1>4, <1>5 DEF Relink

LEMMA RewriteKeeps ==
  ASSUME SkillsConstants, IInv, NEW d \in Dirs, Rewrite(d)
  PROVE  IInv'
<1>1. SkillsTypeOK
  BY DEF IInv
<1>2. UNCHANGED <<name, dirs, doing, mk, left, harness, saw, opened, trampled, calls>>
      /\ changes < MaxChanges /\ changes' = changes + 1
  BY DEF Rewrite, locals
<1>3. changes' \in 0..MaxChanges
  BY <1>1, <1>2, Bounds
<1>4. PICK f \in SkillFiles \ {"new", skill[d]} : skill' = [skill EXCEPT ![d] = f]
  BY DEF Rewrite
<1>5. late' = [p \in Callers |-> late[p] \/ opened[p] = d] /\ d \in 1..dirs
  BY DEF Rewrite
<1>6. late' \in [Callers -> BOOLEAN]
  BY <1>1, <1>5 DEF SkillsTypeOK
<1>7. SkillsTypeOK'
  <2>1. skill' \in [Dirs -> SkillFiles]
    BY <1>1, <1>4 DEF SkillsTypeOK
  <2> QED
    BY <1>1, <1>2, <1>3, <1>6, <2>1 DEF SkillsTypeOK
<1>8. OnlyItsOwn'
  <2>1. d # Theirs
    BY <1>1, <1>5, Bounds
  <2> QED
    BY <1>1, <1>2, <1>4, <2>1 DEF IInv, OnlyItsOwn, SkillsTypeOK
<1>9. ASSUME NEW p \in Callers PROVE CallOK(p)'
  <2>1. CallOK(p) /\ late'[p] = (late[p] \/ opened[p] = d)
    BY <1>5 DEF IInv
  <2>2. opened[p] # d => skill'[opened[p]] = skill[opened[p]]
    BY <1>1, <1>4 DEF SkillsTypeOK
  <2> QED
    BY <1>2, <2>1, <2>2 DEF CallOK, Fit
<1> QED
  BY <1>7, <1>8, <1>9 DEF IInv

LEMMA CallKeeps ==
  ASSUME SkillsConstants, IInv, NEW p \in Callers, Call(p)
  PROVE  IInv'
<1>1. SkillsTypeOK
  BY DEF IInv
<1>2. Go(p, "idle", "next") /\ UNCHANGED <<saw, opened, late, name, dirs, skill, harness>>
      /\ UNCHANGED <<trampled, changes>> /\ calls < MaxInstalls /\ calls' = calls + 1
  BY DEF Call, Stays
<1>3. /\ doing' \in [Callers -> Steps] /\ doing'[p] = "next"
      /\ \A q \in Callers \ {p} : doing'[q] = doing[q]
  BY <1>1, <1>2, GoIs DEF Steps
<1>4. mk' \in [Callers -> BOOLEAN] /\ \A q \in Callers \ {p} : mk'[q] = mk[q]
  BY <1>1 DEF Call, SkillsTypeOK
<1>5. left' \in [Callers -> SUBSET Harnesses]
  BY <1>1 DEF Call, SkillsTypeOK
<1>6. calls' \in 0..MaxInstalls
  BY <1>1, <1>2, Bounds
<1>7. SkillsTypeOK'
  BY <1>1, <1>2, <1>3, <1>4, <1>5, <1>6 DEF SkillsTypeOK
<1>8. CallOK(p)'
  BY <1>3, Early
<1>9. ASSUME NEW q \in Callers, q # p PROVE CallOK(q)'
  BY <1>2, <1>3, <1>4, <1>9, Untouched DEF IInv
<1>10. OnlyItsOwn'
  BY <1>2 DEF IInv, OnlyItsOwn
<1> QED
  BY <1>7, <1>8, <1>9, <1>10 DEF IInv

LEMMA TakeKeeps ==
  ASSUME SkillsConstants, IInv, NEW p \in Callers, Take(p)
  PROVE  IInv'
<1>1. SkillsTypeOK
  BY DEF IInv
<1>2. Go(p, "next", "lstat")
      /\ UNCHANGED <<saw, opened, late, mk, trampled, changes, name, dirs, skill, calls>>
  BY DEF Take, Stays, Rest
<1>3. /\ doing' \in [Callers -> Steps] /\ doing'[p] = "lstat"
      /\ \A q \in Callers \ {p} : doing'[q] = doing[q]
  BY <1>1, <1>2, GoIs DEF Steps
<1>4. harness' \in [Callers -> Harnesses] /\ left' \in [Callers -> SUBSET Harnesses]
  BY <1>1 DEF Take, SkillsTypeOK
<1>5. SkillsTypeOK'
  BY <1>1, <1>2, <1>3, <1>4 DEF SkillsTypeOK
<1>6. CallOK(p)'
  BY <1>3, Early
<1> QED
  BY <1>2, <1>3, <1>5, <1>6, OneMoves

\* A call that goes on to the next harness, and nothing else.
LEMMA NextOneKeeps ==
  ASSUME SkillsConstants, IInv, NEW p \in Callers, NextOne(p), Fixed(p),
         UNCHANGED <<name, dirs, skill>>
  PROVE  IInv'
<1>1. SkillsTypeOK
  BY DEF IInv
<1>2. UNCHANGED <<mk, trampled, changes, left, harness, calls>>
  BY DEF Fixed, Rest
<1>3. /\ doing' \in [Callers -> Steps] /\ doing'[p] \in {"idle", "next"}
      /\ saw' \in [Callers -> Missing..dirs] /\ opened' \in [Callers -> Missing..dirs]
      /\ late' \in [Callers -> BOOLEAN]
      /\ \A q \in Callers \ {p} : /\ doing'[q] = doing[q] /\ saw'[q] = saw[q]
                                  /\ opened'[q] = opened[q] /\ late'[q] = late[q]
  BY <1>1, NextOneIs
<1>4. SkillsTypeOK'
  BY <1>1, <1>2, <1>3 DEF SkillsTypeOK
<1>5. CallOK(p)'
  BY <1>3, Early
<1> QED
  BY <1>2, <1>3, <1>4, <1>5, OneMoves

LEMMA LstatKeeps ==
  ASSUME SkillsConstants, IInv, NEW p \in Callers, LstatName(p)
  PROVE  IInv'
<1> DEFINE n == name[harness[p]]
<1>1. SkillsTypeOK
  BY DEF IInv
<1>2. Fixed(p) /\ UNCHANGED <<name, dirs, skill>>
      /\ UNCHANGED <<mk, trampled, changes, left, harness, calls>>
  BY DEF LstatName, Fixed, Rest
<1>3. n \in Missing..dirs
  BY <1>1 DEF SkillsTypeOK
<1>4. CASE /\ n > Theirs /\ Go(p, "lstat", "open")
           /\ saw' = [saw EXCEPT ![p] = n] /\ UNCHANGED <<opened, late>>
  <2>1. /\ doing' \in [Callers -> Steps] /\ doing'[p] = "open"
        /\ \A q \in Callers \ {p} : doing'[q] = doing[q]
    BY <1>1, <1>4, GoIs DEF Steps
  <2>2. saw' \in [Callers -> Missing..dirs] /\ saw'[p] = n
        /\ \A q \in Callers \ {p} : saw'[q] = saw[q]
    BY <1>1, <1>3, <1>4 DEF SkillsTypeOK
  <2>3. SkillsTypeOK'
    BY <1>1, <1>2, <1>4, <2>1, <2>2 DEF SkillsTypeOK
  <2>4. CallOK(p)'
    BY <1>4, <2>1, <2>2 DEF CallOK
  <2> QED
    BY <1>2, <1>4, <2>1, <2>2, <2>3, <2>4, OneMoves
<1>5. CASE n = Missing /\ mk[p] /\ Go(p, "lstat", "mkdir") /\ Stays
  <2>1. /\ doing' \in [Callers -> Steps] /\ doing'[p] = "mkdir"
        /\ \A q \in Callers \ {p} : doing'[q] = doing[q]
    BY <1>1, <1>5, GoIs DEF Steps
  <2>2. SkillsTypeOK'
    BY <1>1, <1>2, <1>5, <2>1 DEF SkillsTypeOK, Stays
  <2>3. CallOK(p)'
    BY <2>1, Early
  <2> QED
    BY <1>2, <1>5, <2>1, <2>2, <2>3, OneMoves DEF Stays
<1>6. CASE NextOne(p)
  BY <1>2, <1>6, NextOneKeeps
<1> QED
  BY <1>4, <1>5, <1>6 DEF LstatName

LEMMA MkdirKeeps ==
  ASSUME SkillsConstants, IInv, NEW p \in Callers, MkdirName(p)
  PROVE  IInv'
<1> DEFINE h == harness[p]
<1>1. SkillsTypeOK
  BY DEF IInv
<1>2. Fixed(p) /\ UNCHANGED <<skill, mk, trampled, changes, left, harness, calls>>
  BY DEF MkdirName, Fixed, Rest
<1>3. CASE /\ dirs < MaxDirs /\ Go(p, "mkdir", "lstat")
           /\ dirs' = dirs + 1 /\ name' = [name EXCEPT ![h] = dirs + 1]
           /\ Stays
  <2>1. /\ doing' \in [Callers -> Steps] /\ doing'[p] = "lstat"
        /\ \A q \in Callers \ {p} : doing'[q] = doing[q]
    BY <1>1, <1>3, GoIs DEF Steps
  <2>2. /\ dirs + 1 \in 0..MaxDirs /\ dirs + 1 \in Missing..(dirs + 1)
        /\ \A n \in Missing..dirs : n \in Missing..(dirs + 1)
    BY <1>1, <1>3, Places
  <2>3. /\ name' \in [Harnesses -> Missing..(dirs + 1)]
        /\ saw' \in [Callers -> Missing..(dirs + 1)]
        /\ opened' \in [Callers -> Missing..(dirs + 1)]
    BY <1>1, <1>3, <2>2 DEF SkillsTypeOK, Stays
  <2>4. SkillsTypeOK'
    BY <1>1, <1>2, <1>3, <2>1, <2>2, <2>3 DEF SkillsTypeOK, Stays
  <2>5. CallOK(p)'
    BY <2>1, Early
  <2> QED
    BY <1>2, <1>3, <2>1, <2>4, <2>5, OneMoves DEF Stays
<1>4. CASE NextOne(p) /\ UNCHANGED <<name, dirs>>
  BY <1>2, <1>4, NextOneKeeps
<1> QED
  BY <1>3, <1>4 DEF MkdirName

LEMMA OpenKeeps ==
  ASSUME SkillsConstants, IInv, NEW p \in Callers, OpenName(p)
  PROVE  IInv'
<1> DEFINE n == name[harness[p]]
<1>1. SkillsTypeOK
  BY DEF IInv
<1>2. Fixed(p) /\ UNCHANGED <<name, dirs, skill>>
      /\ UNCHANGED <<mk, trampled, changes, left, harness, calls>>
  BY DEF OpenName, Fixed, Rest
<1>3. n \in Missing..dirs
  BY <1>1 DEF SkillsTypeOK
<1>4. CASE /\ n # Missing /\ Go(p, "open", "same")
           /\ opened' = [opened EXCEPT ![p] = n] /\ UNCHANGED <<saw, late>>
  <2>1. doing[p] = "open" /\ doing' \in [Callers -> Steps] /\ doing'[p] = "same"
        /\ \A q \in Callers \ {p} : doing'[q] = doing[q]
    BY <1>1, <1>4, GoIs DEF Steps
  <2>2. opened' \in [Callers -> Missing..dirs] /\ opened'[p] = n
        /\ \A q \in Callers \ {p} : opened'[q] = opened[q]
    BY <1>1, <1>3, <1>4 DEF SkillsTypeOK
  <2>3. SkillsTypeOK'
    BY <1>1, <1>2, <1>4, <2>1, <2>2 DEF SkillsTypeOK
  <2>4. n > Missing
    <3>1. dirs \in Nat /\ Missing = -1
      BY <1>1, Bounds
    <3> QED
      BY <1>3, <1>4, <3>1
  <2>5. saw[p] > Theirs
    BY <2>1 DEF IInv, CallOK
  <2>6. CallOK(p)'
    BY <1>4, <2>1, <2>2, <2>4, <2>5 DEF CallOK
  <2> QED
    BY <1>2, <1>4, <2>1, <2>2, <2>3, <2>6, OneMoves
<1>5. CASE NextOne(p)
  BY <1>2, <1>5, NextOneKeeps
<1> QED
  BY <1>4, <1>5 DEF OpenName

LEMMA SameKeeps ==
  ASSUME SkillsConstants, IInv, NEW p \in Callers, CheckSame(p)
  PROVE  IInv'
<1>1. SkillsTypeOK
  BY DEF IInv
<1>2. Fixed(p) /\ UNCHANGED <<name, dirs, skill>>
      /\ UNCHANGED <<mk, trampled, changes, left, harness, calls>>
  BY DEF CheckSame, Fixed, Rest
<1>3. CASE opened[p] = saw[p] /\ Go(p, "same", "read") /\ Stays
  <2>1. doing[p] = "same" /\ doing' \in [Callers -> Steps] /\ doing'[p] = "read"
        /\ \A q \in Callers \ {p} : doing'[q] = doing[q]
    BY <1>1, <1>3, GoIs DEF Steps
  <2>2. SkillsTypeOK'
    BY <1>1, <1>2, <1>3, <2>1 DEF SkillsTypeOK, Stays
  <2>3. CallOK(p)'
    BY <1>3, <2>1 DEF IInv, CallOK, Stays
  <2> QED
    BY <1>2, <1>3, <2>1, <2>2, <2>3, OneMoves DEF Stays
<1>4. CASE NextOne(p)
  BY <1>2, <1>4, NextOneKeeps
<1> QED
  BY <1>3, <1>4 DEF CheckSame, SameDir

LEMMA ReadKeeps ==
  ASSUME SkillsConstants, IInv, NEW p \in Callers, ReadFile(p)
  PROVE  IInv'
<1> DEFINE f == skill[opened[p]]
<1>1. SkillsTypeOK
  BY DEF IInv
<1>2. Fixed(p) /\ UNCHANGED <<name, dirs, skill>>
      /\ UNCHANGED <<mk, trampled, changes, left, harness, calls>>
  BY DEF ReadFile, Fixed, Rest
<1>3. CASE /\ f \in Own \/ (f = "missing" /\ mk[p])
           /\ Go(p, "read", "rename") /\ late' = [late EXCEPT ![p] = FALSE]
           /\ UNCHANGED <<saw, opened>>
  <2>1. doing[p] = "read" /\ doing' \in [Callers -> Steps] /\ doing'[p] = "rename"
        /\ \A q \in Callers \ {p} : doing'[q] = doing[q]
    BY <1>1, <1>3, GoIs DEF Steps
  <2>2. late' \in [Callers -> BOOLEAN] /\ \A q \in Callers \ {p} : late'[q] = late[q]
    BY <1>1, <1>3 DEF SkillsTypeOK
  <2>3. SkillsTypeOK'
    BY <1>1, <1>2, <1>3, <2>1, <2>2 DEF SkillsTypeOK
  <2>4. Fit(p)'
    BY <1>2, <1>3 DEF Fit
  <2>5. CallOK(p)'
    BY <1>3, <2>1, <2>4 DEF IInv, CallOK
  <2> QED
    BY <1>2, <1>3, <2>1, <2>2, <2>3, <2>5, OneMoves
<1>4. CASE NextOne(p)
  BY <1>2, <1>4, NextOneKeeps
<1> QED
  BY <1>3, <1>4 DEF ReadFile, OwnFile

LEMMA RenameKeeps ==
  ASSUME SkillsConstants, IInv, NEW p \in Callers, RenameFile(p)
  PROVE  IInv'
<1>1. SkillsTypeOK
  BY DEF IInv
<1>2. UNCHANGED <<name, dirs, mk, left, harness, calls, changes>> /\ NextOne(p)
      /\ doing[p] = "rename"
  BY DEF RenameFile
<1>3. CASE UNCHANGED <<skill, trampled>>
  <2>1. Fixed(p)
    BY <1>2, <1>3 DEF Fixed, Rest
  <2> QED
    BY <1>2, <1>3, <2>1, NextOneKeeps
<1>4. CASE /\ skill' = [skill EXCEPT ![opened[p]] = "new"]
           /\ trampled' = (trampled \/ (~late[p] /\ skill[opened[p]] \notin Own
                                        /\ (skill[opened[p]] = "missing" => ~mk[p])))
  <2>1. saw[p] > Theirs /\ opened[p] = saw[p] /\ (late[p] \/ Fit(p))
    BY <1>2 DEF IInv, CallOK
  <2>2. opened[p] # Theirs
    <3>1. saw[p] \in Missing..dirs /\ dirs \in Nat /\ Missing = -1 /\ Theirs = 0
      BY <1>1, Bounds DEF SkillsTypeOK
    <3> QED
      BY <2>1, <3>1
  <2>3. trampled' = FALSE
    BY <1>4, <2>1 DEF IInv, OnlyItsOwn, Fit
  <2>4. /\ doing' \in [Callers -> Steps] /\ doing'[p] \in {"idle", "next"}
        /\ saw' \in [Callers -> Missing..dirs] /\ opened' \in [Callers -> Missing..dirs]
        /\ late' \in [Callers -> BOOLEAN]
        /\ \A q \in Callers \ {p} : /\ doing'[q] = doing[q] /\ saw'[q] = saw[q]
                                    /\ opened'[q] = opened[q] /\ late'[q] = late[q]
    BY <1>1, <1>2, NextOneIs
  <2>5. skill' \in [Dirs -> SkillFiles] /\ skill'[Theirs] = skill[Theirs]
    <3>1. Theirs \in Dirs
      BY <1>1, Bounds DEF Dirs
    <3>2. skill \in [Dirs -> SkillFiles] /\ "new" \in SkillFiles
      BY <1>1 DEF SkillsTypeOK, SkillFiles
    <3>3. skill' \in [Dirs -> SkillFiles]
      BY <1>4, <3>2
    <3> QED
      BY <1>4, <2>2, <3>1, <3>2, <3>3
  <2>6. trampled' \in BOOLEAN
    BY <2>3
  <2>7. SkillsTypeOK'
    BY <1>1, <1>2, <2>4, <2>5, <2>6 DEF SkillsTypeOK
  <2>8. OnlyItsOwn'
    BY <2>3, <2>5 DEF IInv, OnlyItsOwn
  <2>9. ASSUME NEW q \in Callers, q # p PROVE CallOK(q)'
    <3>1. CallOK(q)
      BY DEF IInv
    <3>2. /\ opened'[q] = opened[q] /\ doing'[q] = doing[q]
          /\ saw'[q] = saw[q] /\ late'[q] = late[q]
          /\ mk'[q] = mk[q]
      BY <1>2, <2>4, <2>9
    <3>3. doing[q] = "rename" =>
            skill'[opened[q]] = skill[opened[q]] \/ skill'[opened[q]] \in Own
      BY <1>1, <1>4 DEF SkillsTypeOK, Own
    <3> QED
      BY <3>1, <3>2, <3>3 DEF CallOK, Fit
  <2>10. CallOK(p)'
    BY <2>4, Early
  <2> QED
    BY <2>7, <2>8, <2>9, <2>10 DEF IInv
<1> QED
  BY <1>3, <1>4 DEF RenameFile

LEMMA StutterKeeps ==
  ASSUME IInv, UNCHANGED skillVars
  PROVE  IInv'
<1>1. UNCHANGED <<name, dirs, skill, doing, mk, left, harness, saw, opened, late, trampled,
                  calls, changes>>
  BY DEF skillVars
<1>2. SkillsTypeOK' /\ OnlyItsOwn'
  BY <1>1 DEF IInv, SkillsTypeOK, OnlyItsOwn
<1>3. ASSUME NEW p \in Callers PROVE CallOK(p)'
  BY <1>1, Untouched DEF IInv
<1> QED
  BY <1>2, <1>3 DEF IInv

LEMMA SkillsHold ==
  ASSUME SkillsConstants PROVE SkillsSpec => []IInv
<1>1. SkillsInit => IInv
  BY Starts0
<1>2. IInv /\ [SkillsNext]_skillVars => IInv'
  <2> SUFFICES ASSUME IInv, [SkillsNext]_skillVars PROVE IInv'
    OBVIOUS
  <2>1. ASSUME NEW h \in Harnesses, Relink(h) PROVE IInv'
    BY <2>1, RelinkKeeps
  <2>2. ASSUME NEW d \in Dirs, Rewrite(d) PROVE IInv'
    BY <2>2, RewriteKeeps
  <2>3. ASSUME NEW p \in Callers, Call(p) PROVE IInv'
    BY <2>3, CallKeeps
  <2>4. ASSUME NEW p \in Callers, Take(p) PROVE IInv'
    BY <2>4, TakeKeeps
  <2>5. ASSUME NEW p \in Callers, LstatName(p) PROVE IInv'
    BY <2>5, LstatKeeps
  <2>6. ASSUME NEW p \in Callers, MkdirName(p) PROVE IInv'
    BY <2>6, MkdirKeeps
  <2>7. ASSUME NEW p \in Callers, OpenName(p) PROVE IInv'
    BY <2>7, OpenKeeps
  <2>8. ASSUME NEW p \in Callers, CheckSame(p) PROVE IInv'
    BY <2>8, SameKeeps
  <2>9. ASSUME NEW p \in Callers, ReadFile(p) PROVE IInv'
    BY <2>9, ReadKeeps
  <2>10. ASSUME NEW p \in Callers, RenameFile(p) PROVE IInv'
    BY <2>10, RenameKeeps
  <2>11. CASE UNCHANGED skillVars
    BY <2>11, StutterKeeps
  <2> QED
    BY <2>1, <2>2, <2>3, <2>4, <2>5, <2>6, <2>7, <2>8, <2>9, <2>10, <2>11 DEF SkillsNext
<1> QED
  BY <1>1, <1>2, PTL DEF SkillsSpec

\* Install and Refresh (skills/install.go, refresh.go) write nothing through a symlink
\* and replace nothing they read as another's, whatever another program does meanwhile.
THEOREM OwnSkillsOnly ==
  ASSUME SkillsConstants PROVE SkillsSpec => []OnlyItsOwn
<1>1. IInv => OnlyItsOwn
  BY DEF IInv
<1> QED
  BY <1>1, SkillsHold, PTL

\* Every call is at one of its steps, in directories that exist.
THEOREM SkillsTypes ==
  ASSUME SkillsConstants PROVE SkillsSpec => []SkillsTypeOK
<1>1. IInv => SkillsTypeOK
  BY DEF IInv
<1> QED
  BY <1>1, SkillsHold, PTL

================================================================================
