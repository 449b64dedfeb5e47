-------------------------------- MODULE Skills --------------------------------
(***************************************************************************)
(* skills/install.go and refresh.go: Install and Refresh of one skill for  *)
(* each harness, while another program moves, links and replaces what is   *)
(* in the skills directories.  <skills dir>/<name> is missing, a plain     *)
(* directory, or a symlink to the directory Theirs; SKILL.md in a          *)
(* directory is missing, the tool's own, another skill's, or a symlink.    *)
(* A call to the file system is a step, made on what stands there by then; *)
(* a directory once opened stays that one, whatever its name comes to mean *)
(* (os.Root).                                                              *)
(***************************************************************************)
EXTENDS Integers

CONSTANTS
  Callers, Harnesses,
  MaxDirs,      \* bound: directories there ever are
  MaxInstalls,     \* bound: Install and Refresh
  MaxChanges    \* bound: what the other program does

\* What a theorem here assumes of them; each instance is checked to meet it.
SkillsConstants ==
  MaxDirs \in Nat \ {0} /\ MaxInstalls \in Nat /\ MaxChanges \in Nat /\ Harnesses # {}

VARIABLES
  name,      \* what <name> is, in each harness's skills directory
  dirs,      \* the plain directories made so far
  skill,     \* SKILL.md in each directory
  doing, mk, left, harness, saw, opened,  \* each call: its step, is it Install, the
                                          \* harnesses left, where it is, its directories
  late,      \* history: SKILL.md was changed in the directory a call has open
  trampled,  \* history: a call replaced what it had read as not its own, or revived it
  calls, changes

skillVars ==
  <<name, dirs, skill, doing, mk, left, harness, saw, opened, late, trampled, calls, changes>>

Missing == -1
Theirs == 0
Dirs == Theirs..MaxDirs
SkillFiles == {"missing", "old", "new", "another", "symlink"}
Own == {"old", "new"}
Steps == {"idle", "next", "lstat", "mkdir", "open", "same", "read", "rename"}

SkillsInit ==
  /\ dirs = 1 /\ name \in [Harnesses -> {Missing, Theirs, 1}]
  /\ \A g, h \in Harnesses : name[g] = name[h] => name[h] # 1 \/ g = h
  /\ skill \in [Dirs -> SkillFiles]
  /\ skill[Theirs] \in {"old", "another"} /\ \A d \in Dirs : d > dirs => skill[d] = "missing"
  /\ doing = [p \in Callers |-> "idle"] /\ mk = [p \in Callers |-> FALSE]
  /\ left = [p \in Callers |-> {}]
  /\ harness = [p \in Callers |-> CHOOSE h \in Harnesses : TRUE]
  /\ saw = [p \in Callers |-> Missing] /\ opened = [p \in Callers |-> Missing]
  /\ late = [p \in Callers |-> FALSE] /\ trampled = FALSE
  /\ calls = 0 /\ changes = 0

locals == <<doing, mk, left, harness, saw, opened>>

\* The other program: another directory of that name, a symlink, or neither.
Relink(h) ==
  /\ changes < MaxChanges /\ changes' = changes + 1
  /\ \/ \E d \in {Missing, Theirs} \ {name[h]} : name' = [name EXCEPT ![h] = d]
                                                 /\ UNCHANGED <<dirs, skill>>
     \/ /\ dirs < MaxDirs /\ dirs' = dirs + 1
        /\ name' = [name EXCEPT ![h] = dirs + 1]
        /\ \E f \in SkillFiles : skill' = [skill EXCEPT ![dirs + 1] = f]
  /\ UNCHANGED <<locals, late, trampled, calls>>

\* It writes, links or removes the SKILL.md there.
Rewrite(d) ==
  /\ changes < MaxChanges /\ changes' = changes + 1
  /\ d \in 1..dirs
  /\ \E f \in SkillFiles \ {"new", skill[d]} : skill' = [skill EXCEPT ![d] = f]
  /\ late' = [p \in Callers |-> late[p] \/ opened[p] = d]
  /\ UNCHANGED <<name, dirs, locals, trampled, calls>>

--------------------------------------------------------------------------------

Go(p, from, to) == doing[p] = from /\ doing' = [doing EXCEPT ![p] = to]
Rest == UNCHANGED <<mk, trampled, changes>>

\* This harness is done, or its error noted: on to the rest.
NextOne(p) ==
  /\ doing' = [doing EXCEPT ![p] = IF left[p] = {} THEN "idle" ELSE "next"]
  /\ saw' = [saw EXCEPT ![p] = Missing] /\ opened' = [opened EXCEPT ![p] = Missing]
  /\ late' = [late EXCEPT ![p] = FALSE]

Stays == UNCHANGED <<saw, opened, late>>

\* Install for harnesses named or found, Refresh for those found.
Call(p) ==
  /\ Go(p, "idle", "next") /\ calls < MaxInstalls /\ calls' = calls + 1
  /\ \E install \in BOOLEAN : mk' = [mk EXCEPT ![p] = install]
  /\ \E H \in (SUBSET Harnesses) \ {{}} : left' = [left EXCEPT ![p] = H]
  /\ Stays /\ UNCHANGED <<name, dirs, skill, harness, trampled, changes>>

Take(p) ==
  /\ Go(p, "next", "lstat")
  /\ \E h \in left[p] : /\ harness' = [harness EXCEPT ![p] = h]
                        /\ left' = [left EXCEPT ![p] = @ \ {h}]
  /\ Stays /\ Rest /\ UNCHANGED <<name, dirs, skill, calls>>

Fixed(p) == Rest /\ UNCHANGED <<left, harness, calls>>

\* openSkill: Lstat of the name.
LstatName(p) ==
  LET n == name[harness[p]]
  IN /\ doing[p] = "lstat"
     /\ \/ /\ n > Theirs /\ Go(p, "lstat", "open")
           /\ saw' = [saw EXCEPT ![p] = n] /\ UNCHANGED <<opened, late>>
        \/ n = Missing /\ mk[p] /\ Go(p, "lstat", "mkdir") /\ Stays
        \/ (n = Theirs \/ (n = Missing /\ ~mk[p])) /\ NextOne(p)
     /\ Fixed(p) /\ UNCHANGED <<name, dirs, skill>>

\* Mkdir, then Lstat again: an error when something stands there by now.
MkdirName(p) ==
  LET h == harness[p]
  IN /\ doing[p] = "mkdir"
     /\ \/ /\ name[h] = Missing /\ dirs < MaxDirs /\ Go(p, "mkdir", "lstat")
           /\ dirs' = dirs + 1 /\ name' = [name EXCEPT ![h] = dirs + 1]
           /\ Stays
        \/ name[h] # Missing /\ NextOne(p) /\ UNCHANGED <<name, dirs>>
     /\ Fixed(p) /\ UNCHANGED skill

\* OpenRoot goes through a symlink.
OpenName(p) ==
  LET n == name[harness[p]]
  IN /\ doing[p] = "open"
     /\ \/ /\ n # Missing /\ Go(p, "open", "same")
           /\ opened' = [opened EXCEPT ![p] = n] /\ UNCHANGED <<saw, late>>
        \/ n = Missing /\ NextOne(p)
     /\ Fixed(p) /\ UNCHANGED <<name, dirs, skill>>

AnyDir(p) == TRUE   \* mutant: no SameFile
SameDir(p) == opened[p] = saw[p]

\* SameFile: the directory opened is the one Lstat saw.
CheckSame(p) ==
  /\ doing[p] = "same"
  /\ \/ SameDir(p) /\ Go(p, "same", "read") /\ Stays
     \/ ~SameDir(p) /\ NextOne(p)
  /\ Fixed(p) /\ UNCHANGED <<name, dirs, skill>>

OwnFile(f) == f \in Own

\* read: one regular file, its name: the skill's, or missing for Install to
\* write; Refresh leaves one that is up to date.
ReadFile(p) ==
  LET f == skill[opened[p]]
      write == OwnFile(f) \/ (f = "missing" /\ mk[p])
  IN /\ doing[p] = "read"
     /\ \/ write /\ (mk[p] \/ f # "new")
           /\ Go(p, "read", "rename") /\ late' = [late EXCEPT ![p] = FALSE]
           /\ UNCHANGED <<saw, opened>>
        \/ (~write \/ (~mk[p] /\ f = "new")) /\ NextOne(p)
     /\ Fixed(p) /\ UNCHANGED <<name, dirs, skill>>

\* write's rename of its new file over SKILL.md; or an error before it.
RenameFile(p) ==
  LET f == skill[opened[p]]
  IN /\ doing[p] = "rename" /\ NextOne(p)
     /\ \/ /\ skill' = [skill EXCEPT ![opened[p]] = "new"]
           /\ trampled' = (trampled \/ (~late[p] /\ f \notin Own /\ (f = "missing" => ~mk[p])))
        \/ UNCHANGED <<skill, trampled>>
     /\ UNCHANGED <<name, dirs, mk, left, harness, calls, changes>>

SkillsNext ==
  \/ \E h \in Harnesses : Relink(h)
  \/ \E d \in Dirs : Rewrite(d)
  \/ \E p \in Callers :
       \/ Call(p) \/ Take(p) \/ LstatName(p) \/ MkdirName(p) \/ OpenName(p) \/ CheckSame(p)
       \/ ReadFile(p) \/ RenameFile(p)

SkillsSpec == SkillsInit /\ [][SkillsNext]_skillVars

--------------------------------------------------------------------------------

\* Every name, directory and local of a call holds a value of its kind.
SkillsTypeOK ==
  /\ dirs \in 0..MaxDirs /\ name \in [Harnesses -> Missing..dirs]
  /\ skill \in [Dirs -> SkillFiles]
  /\ doing \in [Callers -> Steps] /\ mk \in [Callers -> BOOLEAN]
  /\ left \in [Callers -> SUBSET Harnesses] /\ harness \in [Callers -> Harnesses]
  /\ saw \in [Callers -> Missing..dirs] /\ opened \in [Callers -> Missing..dirs]
  /\ late \in [Callers -> BOOLEAN] /\ trampled \in BOOLEAN
  /\ calls \in 0..MaxInstalls /\ changes \in 0..MaxChanges

\* Install and Refresh write only the tool's own skill: nothing is written
\* through a symlink, however the name changes under a call, and no call replaces
\* another skill, or revives a missing one it was to leave, unless that took its
\* place after the call had read it.
OnlyItsOwn == skill[Theirs] # "new" /\ ~trampled
===============================================================================
