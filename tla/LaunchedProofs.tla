--------------------------- MODULE LaunchedProofs ---------------------------
(* The walk over launched scripts, for every repository: who owns a script,  *)
(* who starts it, how far the walk goes, and that no skill file is read      *)
(* twice.  What the loops have done so far is said by the position they are  *)
(* at, and the order in which they run does the rest.                        *)
EXTENDS Launched, TLAPS

Passed(i, j) == i < at[1] \/ (i = at[1] /\ j < at[2])
CommandPassed(t, j) == stage # "commands" \/ Passed(t, j)
HookPassed(t, j) == stage \notin {"commands", "hooks"} \/ (stage = "hooks" /\ Passed(t, j))
SiblingPassed(i, j) == stage \in {"skills", "done"} \/ (stage = "siblings" /\ Passed(i, j))
Later == {"siblings", "skills", "done"}

Ordered ==
    /\ \A p \in DOMAIN byPath : \E i \in DOMAIN order : order[i] = p
    /\ stage \notin Later => \A p \in DOMAIN byPath : byPath[p].via = None
    /\ stage \in Later =>
          /\ \A i \in 1..direct : byPath[order[i]].via = None
          /\ \A p \in DOMAIN byPath : byPath[p].via = None => \E i \in 1..direct : order[i] = p

(* A script that is not reached from another one is started, and its owner   *)
(* is a target that starts it.                                               *)
DirectAreStarted ==
    \A p \in DOMAIN byPath :
        /\ Readable(p)
        /\ byPath[p].via = None =>
              /\ byPath[p].owner \in (IF Starters(p) # {} THEN Starters(p) ELSE Hookers(p))
              /\ byPath[p].launchers \subseteq StartFiles(p)

OwnersSoFar ==
    \A p \in DOMAIN byPath :
        /\ stage = "commands" => byPath[p].owner \in Starters(p) /\ byPath[p].owner <= at[1]
        /\ stage = "hooks" /\ Starters(p) = {} => byPath[p].owner <= at[1]

CommandsAdded ==
    \A t \in DOMAIN targets : \A j \in DOMAIN targets[t].commands :
        LET c == targets[t].commands[j] IN
        CommandPassed(t, j) /\ Readable(c.path) =>
            /\ c.path \in DOMAIN byPath /\ byPath[c.path].via = None
            /\ byPath[c.path].owner <= t
            /\ c.file \in byPath[c.path].launchers

HooksAdded ==
    \A t \in DOMAIN targets : \A j \in DOMAIN targets[t].hooks :
        LET p == targets[t].hooks[j] IN
        HookPassed(t, j) /\ Readable(p) =>
            /\ p \in DOMAIN byPath /\ byPath[p].via = None
            /\ Starters(p) = {} => byPath[p].owner <= t
            /\ p \in byPath[p].launchers

SiblingsNamed ==
    \A p \in DOMAIN byPath : LET q == byPath[p].via IN q # None =>
        /\ q \in DOMAIN byPath /\ byPath[q].via = None
        /\ Names(q, p)
        /\ byPath[p].launchers = byPath[q].launchers

SiblingsAdded ==
    stage \in Later => \A i \in 1..direct : content[order[i]].runs =>
        \A j \in DOMAIN content[order[i]].names :
            SiblingPassed(i, j) /\ Readable(content[order[i]].names[j]) => content[order[i]].names[j] \in DOMAIN byPath

GivenOnce ==
    /\ stage \notin {"skills", "done"} => shipped = {} /\ helpers = {}
    /\ \A s \in shipped : s[2] \notin DOMAIN byPath \cup InstructionFiles \cup helpers
    /\ \A r, s \in shipped : r[2] = s[2] => r = s
    /\ helpers \cap (DOMAIN byPath \cup InstructionFiles) = {}

SkillsRead ==
    stage \in {"skills", "done"} => \A k \in DOMAIN AllTargets : (stage = "done" \/ k < at[1]) =>
        \A p \in Paths : ~ Dropped(k) /\ Ships(AllTargets[k], p) => p \in Known

IInv == /\ TypeOK /\ Ordered /\ DirectAreStarted /\ OwnersSoFar /\ CommandsAdded /\ HooksAdded
        /\ SiblingsNamed /\ SiblingsAdded /\ GivenOnce /\ SkillsRead
-----------------------------------------------------------------------------
LEMMA RepositoryTypes ==
    ASSUME TypeOK
    PROVE  /\ targets \in Seq(Target) /\ packages \in Seq(Target)
           /\ DOMAIN targets = 1..Len(targets) /\ Len(targets) \in Nat
           /\ \A t \in DOMAIN targets : /\ targets[t].commands \in Seq(Command) /\ targets[t].hooks \in Seq(Paths)
           /\ \A p \in Paths : Readable(p) => content[p].names \in Seq(Paths)
<1>1. targets \in Seq(Target) /\ packages \in Seq(Target) BY LaunchedAssumption DEF TypeOK, LaunchedAssumption
<1>2. content \in [Paths -> Text \cup {Absent}] BY LaunchedAssumption DEF TypeOK, LaunchedAssumption
<1>3. ASSUME NEW t \in DOMAIN targets PROVE targets[t].commands \in Seq(Command) /\ targets[t].hooks \in Seq(Paths)
  <2>1. targets[t] \in Target BY <1>1
  <2> QED BY <2>1 DEF Target
<1>4. ASSUME NEW p \in Paths, Readable(p) PROVE content[p].names \in Seq(Paths)
  <2>1. content[p] \in Text BY <1>2, <1>4 DEF Readable
  <2> QED BY <2>1 DEF Text
<1>5. DOMAIN targets = 1..Len(targets) /\ Len(targets) \in Nat BY <1>1
<1> QED BY <1>1, <1>3, <1>4, <1>5

(* What one call of add does to the scripts and to their order.              *)
With(p) == DOMAIN byPath \cup {r \in {p} : Readable(r)}
Script == [owner : DOMAIN targets, launchers : SUBSET Paths, via : Paths \cup {None}]
Extends(b, owner, p, L, via) ==
    /\ DOMAIN b = With(p)
    /\ \A q \in DOMAIN byPath :
          /\ b[q].owner = byPath[q].owner /\ b[q].via = byPath[q].via
          /\ b[q].launchers = byPath[q].launchers \cup (IF q = p THEN L ELSE {})
    /\ p \notin DOMAIN byPath /\ Readable(p) => b[p] = [owner |-> owner, launchers |-> L, via |-> via]
    /\ \A q \in DOMAIN b : b[q] \in Script

LEMMA WithIs ==
    ASSUME NEW p
    PROVE  \A q : q \in With(p) <=> q \in DOMAIN byPath \/ (q = p /\ Readable(p))
BY DEF With

LEMMA AddIs ==
    ASSUME TypeOK, NEW owner \in DOMAIN targets, NEW p \in Paths, NEW L \in SUBSET Paths, NEW via \in Paths \cup {None}
    PROVE  Extends(add(owner, p, L, via), owner, p, L, via)
<1> DEFINE b == add(owner, p, L, via)
<1>1. DOMAIN b = With(p) BY DEF add, With
<1>2. ASSUME NEW q \in DOMAIN byPath
      PROVE  /\ b[q].owner = byPath[q].owner /\ b[q].via = byPath[q].via
             /\ b[q].launchers = byPath[q].launchers \cup (IF q = p THEN L ELSE {})
             /\ b[q] \in Script
  <2>1. b[q] = IF q = p THEN [byPath[q] EXCEPT !.launchers = @ \cup L] ELSE byPath[q] BY <1>2 DEF add
  <2>2. byPath[q] \in Script BY DEF TypeOK, Script
  <2> HIDE DEF b
  <2> QED BY <2>1, <2>2 DEF Script
<1>3. ASSUME p \notin DOMAIN byPath, Readable(p) PROVE b[p] = [owner |-> owner, launchers |-> L, via |-> via]
  BY <1>3 DEF add, Entry
<1> HIDE DEF b
<1>4. ASSUME NEW q \in DOMAIN b PROVE b[q] \in Script
  <2>1. CASE q \in DOMAIN byPath BY <1>2, <2>1
  <2>2. CASE q \notin DOMAIN byPath
    <3>1. q = p /\ Readable(p) BY <1>1, <2>2, WithIs
    <3> QED BY <1>3, <2>2, <3>1 DEF Script
  <2> QED BY <2>1, <2>2
<1>5. Extends(b, owner, p, L, via) BY <1>1, <1>2, <1>3, <1>4 DEF Extends
<1> QED BY <1>5 DEF b

LEMMA AppendedIs ==
    ASSUME TypeOK, NEW p \in Paths, \A q \in DOMAIN byPath : \E i \in DOMAIN order : order[i] = q,
           NEW D, D = With(p)
    PROVE  /\ Appended(p) \in Seq(D)
           /\ Len(order) \in Nat /\ Len(Appended(p)) \in Nat /\ Len(order) <= Len(Appended(p))
           /\ \A i \in 1..Len(order) : Appended(p)[i] = order[i]
           /\ \A q \in D : \E i \in DOMAIN Appended(p) : Appended(p)[i] = q
<1>1. order \in Seq(DOMAIN byPath) /\ Len(order) \in Nat BY DEF TypeOK
<1>2. CASE p \notin DOMAIN byPath /\ Readable(p)
  <2>0. D = DOMAIN byPath \cup {p} /\ order \in Seq(D) BY <1>1, <1>2, WithIs
  <2>1. Appended(p) = Append(order, p) /\ p \in D BY <1>2, <2>0 DEF Appended
  <2>2. Append(order, p)[Len(order) + 1] = p BY <1>1
  <2> QED BY <1>1, <2>0, <2>1, <2>2
<1>3. CASE ~ (p \notin DOMAIN byPath /\ Readable(p))
  <2>1. D = DOMAIN byPath BY <1>3, WithIs
  <2> QED BY <1>1, <1>3, <2>1 DEF Appended
<1> QED BY <1>2, <1>3

(* Where a loop is: an item is one of the sequence it runs over, and a round *)
(* without one has passed all of it.                                         *)
LEMMA RoundIs ==
    ASSUME TypeOK
    PROVE  /\ stage \in {"commands", "hooks"} /\ HasItem => at[1] \in DOMAIN targets
           /\ stage \in {"commands", "hooks"} /\ at[1] <= Rounds => at[1] \in DOMAIN targets
           /\ stage = "siblings" /\ (HasItem \/ at[1] <= Rounds) => at[1] \in 1..direct
           /\ stage = "commands" /\ at[1] <= Rounds => Round = targets[at[1]].commands
           /\ stage = "hooks" /\ at[1] <= Rounds => Round = targets[at[1]].hooks
           /\ stage = "siblings" /\ at[1] <= Rounds =>
                 Round = IF content[order[at[1]]].runs THEN content[order[at[1]]].names ELSE << >>
           /\ HasItem => at[1] <= Rounds
<1>1. at[1] \in Nat \ {0} /\ at[2] \in Nat \ {0} /\ direct \in Nat BY DEF TypeOK
<1>2. DOMAIN targets = 1..Len(targets) /\ Len(targets) \in Nat BY RepositoryTypes
<1>4. HasItem => at[1] <= Rounds BY DEF HasItem
<1>5. stage \in {"commands", "hooks"} /\ at[1] <= Rounds => at[1] \in DOMAIN targets BY <1>1, <1>2 DEF Rounds
<1>6. stage = "siblings" /\ at[1] <= Rounds => at[1] \in 1..direct BY <1>1 DEF Rounds
<1>8. stage = "commands" => Round = targets[at[1]].commands BY DEF Round
<1>9. stage = "hooks" => Round = targets[at[1]].hooks BY DEF Round
<1>10. stage = "siblings" => Round = IF content[order[at[1]]].runs THEN content[order[at[1]]].names ELSE << >> BY DEF Round
<1> QED BY <1>4, <1>5, <1>6, <1>8, <1>9, <1>10

LEMMA SameRepository ==
    ASSUME UNCHANGED repository
    PROVE  /\ \A p : /\ Readable(p)' = Readable(p) /\ Starters(p)' = Starters(p) /\ Hookers(p)' = Hookers(p)
                     /\ StartFiles(p)' = StartFiles(p) /\ \A q : Names(q, p)' = Names(q, p)
           /\ AllTargets' = AllTargets /\ InstructionFiles' = InstructionFiles
           /\ \A k : Dropped(k)' = Dropped(k)
           /\ \A t, p : Ships(t, p)' = Ships(t, p)
<1> USE DEF repository
<1>1. \A p : Readable(p)' = Readable(p) BY DEF Readable
<1>2. \A p : Starters(p)' = Starters(p) BY DEF Starters
<1>3. \A p : Hookers(p)' = Hookers(p) BY DEF Hookers
<1>4. \A p : StartFiles(p)' = StartFiles(p)
  BY <1>3 DEF StartFiles
<1>5. \A p : Started(p)' = Started(p) BY <1>1, <1>2, <1>3 DEF Started
<1>6. \A p, q : Names(q, p)' = Names(q, p) BY <1>5 DEF Names
<1>7. AllTargets' = AllTargets BY DEF AllTargets
<1>8. InstructionFiles' = InstructionFiles BY <1>7 DEF InstructionFiles, InstructionsOf
<1>9. \A k : Dropped(k)' = Dropped(k) BY <1>7 DEF Dropped, InstructionsOf
<1>10. \A d : HasSkill(d)' = HasSkill(d) BY <1>1 DEF HasSkill
<1>11. \A p, d : InSkill(p, d)' = InSkill(p, d) BY <1>10 DEF InSkill
<1>12. \A t, p : Ships(t, p)' = Ships(t, p) BY <1>1, <1>11 DEF Ships, SkillTarget
<1> QED BY <1>1, <1>2, <1>3, <1>4, <1>6, <1>7, <1>8, <1>9, <1>12
-----------------------------------------------------------------------------
LEMMA StartCommandKeeps ==
    ASSUME IInv, StartCommand
    PROVE  IInv'
<1> DEFINE t == at[1]  j == at[2]  c == targets[t].commands[j]
<1>1. TypeOK /\ stage = "commands" /\ HasItem BY DEF IInv, StartCommand
<1>2. /\ t \in DOMAIN targets /\ j \in DOMAIN targets[t].commands /\ Item = c
      /\ t \in Nat /\ j \in Nat
  BY <1>1, RoundIs DEF HasItem, Item, TypeOK
<1>3. c \in Command /\ c.path \in Paths /\ c.file \in Paths /\ c = [file |-> c.file, path |-> c.path]
  <2>1. targets[t].commands \in Seq(Command) BY <1>1, <1>2, RepositoryTypes
  <2>2. c \in Command BY <1>2, <2>1
  <2> QED BY <2>2 DEF Command
<1> DEFINE b == add(t, c.path, {c.file}, None)
<1>4. /\ byPath' = b /\ order' = Appended(c.path) /\ at' = <<t, j + 1>>
      /\ stage' = stage /\ direct' = direct /\ shipped' = shipped /\ helpers' = helpers /\ UNCHANGED repository
  BY <1>2 DEF StartCommand, NextItem
<1> HIDE DEF c
<1>5. /\ DOMAIN b = With(c.path)
      /\ \A q : q \in DOMAIN b <=> q \in DOMAIN byPath \/ (q = c.path /\ Readable(c.path))
      /\ \A q \in DOMAIN byPath :
            /\ b[q].owner = byPath[q].owner /\ b[q].via = byPath[q].via
            /\ b[q].launchers = byPath[q].launchers \cup (IF q = c.path THEN {c.file} ELSE {})
      /\ c.path \notin DOMAIN byPath /\ Readable(c.path) => b[c.path] = [owner |-> t, launchers |-> {c.file}, via |-> None]
      /\ \A q \in DOMAIN b : b[q] \in Script
  <2>1. Extends(b, t, c.path, {c.file}, None) BY <1>1, <1>2, <1>3, AddIs
  <2> HIDE DEF b
  <2> QED BY <2>1, WithIs DEF Extends
<1> HIDE DEF b
<1>6. /\ Appended(c.path) \in Seq(DOMAIN b)
      /\ Len(order) \in Nat /\ Len(Appended(c.path)) \in Nat /\ Len(order) <= Len(Appended(c.path))
      /\ \A q \in DOMAIN b : \E i \in DOMAIN Appended(c.path) : Appended(c.path)[i] = q
  BY <1>1, <1>3, <1>5, AppendedIs DEF IInv, Ordered
<1>7. /\ \A p : /\ Readable(p)' = Readable(p) /\ Starters(p)' = Starters(p) /\ Hookers(p)' = Hookers(p)
                 /\ StartFiles(p)' = StartFiles(p)
      /\ InstructionFiles' = InstructionFiles
  BY <1>4, SameRepository
<1>8. t \in Starters(c.path) /\ c.file \in StartFiles(c.path)
  BY <1>2, <1>3 DEF Starters, StartFiles, c
<1>9. TypeOK'
  BY <1>1, <1>2, <1>3, <1>4, <1>5, <1>6 DEF TypeOK, Script, repository
<1>10. Ordered'
  <2>1. \A q \in DOMAIN byPath : byPath[q].via = None BY <1>1 DEF IInv, Ordered, Later
  <2>2. \A q \in DOMAIN b : b[q].via = None BY <1>5, <2>1
  <2> QED BY <1>1, <1>4, <1>6, <2>2 DEF Ordered, Later
<1>11. DirectAreStarted'
  BY <1>4, <1>5, <1>7, <1>8 DEF IInv, DirectAreStarted
<1>12. OwnersSoFar'
  BY <1>1, <1>2, <1>4, <1>5, <1>7, <1>8 DEF IInv, OwnersSoFar
<1>13. CommandsAdded'
  <2> SUFFICES ASSUME NEW u \in DOMAIN targets, NEW k \in DOMAIN targets[u].commands,
                      Passed(u, k) \/ (u = t /\ k = j), Readable(targets[u].commands[k].path)
               PROVE  LET d == targets[u].commands[k] IN
                      /\ d.path \in DOMAIN b /\ b[d.path].via = None
                      /\ b[d.path].owner <= u
                      /\ d.file \in b[d.path].launchers
    <3>1. targets' = targets BY <1>4 DEF repository
    <3>2. \A u \in DOMAIN targets : \A k \in DOMAIN targets[u].commands : k \in Nat /\ u \in Nat
      BY <1>1, RepositoryTypes
    <3>3. \A u \in DOMAIN targets : \A k \in DOMAIN targets[u].commands :
              CommandPassed(u, k)' => Passed(u, k) \/ (u = t /\ k = j)
      BY <1>1, <1>2, <1>4, <3>2 DEF CommandPassed, Passed
    <3> QED BY <1>4, <1>7, <3>1, <3>3 DEF CommandsAdded
  <2> DEFINE d == targets[u].commands[k]
  <2>1. CASE Passed(u, k)
    <3>1. /\ d.path \in DOMAIN byPath /\ byPath[d.path].via = None
          /\ byPath[d.path].owner <= u /\ d.file \in byPath[d.path].launchers
      BY <2>1 DEF IInv, CommandsAdded, CommandPassed
    <3> QED BY <1>5, <3>1
  <2>2. CASE u = t /\ k = j
    <3>1. d = c BY <2>2 DEF c
    <3>2. CASE c.path \in DOMAIN byPath
      <4>1. byPath[c.path].via = None /\ byPath[c.path].owner <= t
        BY <1>1, <3>2 DEF IInv, Ordered, OwnersSoFar, Later
      <4> QED BY <1>5, <2>2, <3>1, <3>2, <4>1
    <3>3. CASE c.path \notin DOMAIN byPath
      <4>1. Readable(c.path) BY <3>1
      <4>2. b[c.path] = [owner |-> t, launchers |-> {c.file}, via |-> None] /\ c.path \in DOMAIN b BY <1>5, <3>3, <4>1
      <4> QED BY <1>2, <2>2, <3>1, <4>2
    <3> QED BY <3>2, <3>3
  <2> QED BY <2>1, <2>2
<1>14. HooksAdded' BY <1>1, <1>4 DEF HooksAdded, HookPassed
<1>15. SiblingsNamed'
  <2>1. \A q \in DOMAIN b : b[q].via = None BY <1>1, <1>5 DEF IInv, Ordered, Later
  <2> QED BY <1>4, <2>1 DEF SiblingsNamed
<1>16. SiblingsAdded' /\ SkillsRead' BY <1>1, <1>4 DEF SiblingsAdded, SkillsRead, Later
<1>17. GivenOnce'
  <2>1. shipped = {} /\ helpers = {} BY <1>1 DEF IInv, GivenOnce
  <2> QED BY <1>4, <2>1 DEF GivenOnce
<1> QED BY <1>9, <1>10, <1>11, <1>12, <1>13, <1>14, <1>15, <1>16, <1>17 DEF IInv

LEMMA StartHookKeeps ==
    ASSUME IInv, StartHook
    PROVE  IInv'
<1> DEFINE t == at[1]  j == at[2]  p == targets[t].hooks[j]
<1>1. TypeOK /\ stage = "hooks" /\ HasItem BY DEF IInv, StartHook
<1>2. /\ t \in DOMAIN targets /\ j \in DOMAIN targets[t].hooks /\ Item = p
      /\ t \in Nat /\ j \in Nat
  BY <1>1, RoundIs DEF HasItem, Item, TypeOK
<1>3. p \in Paths
  <2>1. targets[t].hooks \in Seq(Paths) BY <1>1, <1>2, RepositoryTypes
  <2> QED BY <1>2, <2>1
<1> DEFINE b == add(t, p, {p}, None)
<1>4. /\ byPath' = b /\ order' = Appended(p) /\ at' = <<t, j + 1>>
      /\ stage' = stage /\ direct' = direct /\ shipped' = shipped /\ helpers' = helpers /\ UNCHANGED repository
  BY <1>2 DEF StartHook, NextItem
<1> HIDE DEF p
<1>5. /\ DOMAIN b = With(p)
      /\ \A q : q \in DOMAIN b <=> q \in DOMAIN byPath \/ (q = p /\ Readable(p))
      /\ \A q \in DOMAIN byPath :
            /\ b[q].owner = byPath[q].owner /\ b[q].via = byPath[q].via
            /\ b[q].launchers = byPath[q].launchers \cup (IF q = p THEN {p} ELSE {})
      /\ p \notin DOMAIN byPath /\ Readable(p) => b[p] = [owner |-> t, launchers |-> {p}, via |-> None]
      /\ \A q \in DOMAIN b : b[q] \in Script
  <2>1. Extends(b, t, p, {p}, None) BY <1>1, <1>2, <1>3, AddIs
  <2> HIDE DEF b
  <2> QED BY <2>1, WithIs DEF Extends
<1> HIDE DEF b
<1>6. /\ Appended(p) \in Seq(DOMAIN b)
      /\ Len(order) \in Nat /\ Len(Appended(p)) \in Nat /\ Len(order) <= Len(Appended(p))
      /\ \A q \in DOMAIN b : \E i \in DOMAIN Appended(p) : Appended(p)[i] = q
  BY <1>1, <1>3, <1>5, AppendedIs DEF IInv, Ordered
<1>7. /\ \A q : /\ Readable(q)' = Readable(q) /\ Starters(q)' = Starters(q) /\ Hookers(q)' = Hookers(q)
                 /\ StartFiles(q)' = StartFiles(q)
      /\ InstructionFiles' = InstructionFiles
  BY <1>4, SameRepository
<1>8. t \in Hookers(p) /\ p \in StartFiles(p)
  BY <1>2 DEF Hookers, StartFiles, p
<1>9. p \notin DOMAIN byPath /\ Readable(p) => Starters(p) = {}
  BY <1>1 DEF IInv, CommandsAdded, CommandPassed, Starters
<1>10. TypeOK'
  BY <1>1, <1>2, <1>3, <1>4, <1>5, <1>6 DEF TypeOK, Script, repository
<1>11. \A q \in DOMAIN b : b[q].via = None
  <2>1. \A q \in DOMAIN byPath : byPath[q].via = None BY <1>1 DEF IInv, Ordered, Later
  <2> QED BY <1>5, <2>1
<1>12. Ordered' BY <1>1, <1>4, <1>6, <1>11 DEF Ordered, Later
<1>13. DirectAreStarted'
  BY <1>4, <1>5, <1>7, <1>8, <1>9 DEF IInv, DirectAreStarted
<1>14. OwnersSoFar'
  BY <1>1, <1>2, <1>4, <1>5, <1>7 DEF IInv, OwnersSoFar
<1>15. CommandsAdded'
  <2>1. targets' = targets BY <1>4 DEF repository
  <2> SUFFICES ASSUME NEW u \in DOMAIN targets, NEW k \in DOMAIN targets[u].commands,
                      Readable(targets[u].commands[k].path)
               PROVE  LET d == targets[u].commands[k] IN
                      /\ d.path \in DOMAIN b /\ b[d.path].via = None
                      /\ b[d.path].owner <= u
                      /\ d.file \in b[d.path].launchers
    BY <1>4, <1>7, <2>1 DEF CommandsAdded
  <2> DEFINE d == targets[u].commands[k]
  <2>2. /\ d.path \in DOMAIN byPath /\ byPath[d.path].via = None
        /\ byPath[d.path].owner <= u /\ d.file \in byPath[d.path].launchers
    BY <1>1 DEF IInv, CommandsAdded, CommandPassed
  <2> QED BY <1>5, <2>2
<1>16. HooksAdded'
  <2> SUFFICES ASSUME NEW u \in DOMAIN targets, NEW k \in DOMAIN targets[u].hooks,
                      Passed(u, k) \/ (u = t /\ k = j), Readable(targets[u].hooks[k])
               PROVE  LET d == targets[u].hooks[k] IN
                      /\ d \in DOMAIN b /\ b[d].via = None
                      /\ Starters(d) = {} => b[d].owner <= u
                      /\ d \in b[d].launchers
    <3>1. targets' = targets BY <1>4 DEF repository
    <3>2. \A u \in DOMAIN targets : \A k \in DOMAIN targets[u].hooks : k \in Nat /\ u \in Nat
      BY <1>1, RepositoryTypes
    <3>3. \A u \in DOMAIN targets : \A k \in DOMAIN targets[u].hooks :
              HookPassed(u, k)' => Passed(u, k) \/ (u = t /\ k = j)
      BY <1>1, <1>2, <1>4, <3>2 DEF HookPassed, Passed
    <3> QED BY <1>4, <1>7, <3>1, <3>3 DEF HooksAdded
  <2> DEFINE d == targets[u].hooks[k]
  <2>1. CASE Passed(u, k)
    <3>1. /\ d \in DOMAIN byPath /\ byPath[d].via = None
          /\ Starters(d) = {} => byPath[d].owner <= u
          /\ d \in byPath[d].launchers
      BY <1>1, <2>1 DEF IInv, HooksAdded, HookPassed
    <3> QED BY <1>5, <3>1
  <2>2. CASE u = t /\ k = j
    <3>1. d = p /\ Readable(p) BY <2>2 DEF p
    <3>2. CASE p \in DOMAIN byPath
      <4>1. byPath[p].via = None /\ (Starters(p) = {} => byPath[p].owner <= t)
        BY <1>1, <3>2 DEF IInv, Ordered, OwnersSoFar, Later
      <4> QED BY <1>5, <2>2, <3>1, <3>2, <4>1
    <3>3. CASE p \notin DOMAIN byPath
      <4>1. b[p] = [owner |-> t, launchers |-> {p}, via |-> None] /\ p \in DOMAIN b BY <1>5, <3>1, <3>3
      <4> QED BY <1>2, <2>2, <3>1, <4>1
    <3> QED BY <3>2, <3>3
  <2> QED BY <2>1, <2>2
<1>17. SiblingsNamed' BY <1>4, <1>11 DEF SiblingsNamed
<1>18. SiblingsAdded' /\ SkillsRead' BY <1>1, <1>4 DEF SiblingsAdded, SkillsRead, Later
<1>19. GivenOnce'
  <2>1. shipped = {} /\ helpers = {} BY <1>1 DEF IInv, GivenOnce
  <2> QED BY <1>4, <2>1 DEF GivenOnce
<1> QED BY <1>10, <1>12, <1>13, <1>14, <1>15, <1>16, <1>17, <1>18, <1>19 DEF IInv

LEMMA FollowSiblingKeeps ==
    ASSUME IInv, FollowSibling
    PROVE  IInv'
<1> DEFINE i == at[1]  j == at[2]  rel == order[i]  p == content[rel].names[j]
           owner == byPath[rel].owner
<1>1. TypeOK /\ stage = "siblings" /\ HasItem BY DEF IInv, FollowSibling
<1>2. /\ i \in 1..direct /\ i \in Nat /\ j \in Nat /\ direct \in 0..Len(order) /\ Len(order) \in Nat
      /\ rel \in DOMAIN byPath /\ rel \in Paths /\ byPath[rel].via = None
      /\ byPath[rel] \in Script
  <2>1. i \in 1..direct BY <1>1, RoundIs
  <2>2. direct \in 0..Len(order) /\ order \in Seq(DOMAIN byPath) BY <1>1 DEF TypeOK
  <2>3. rel \in DOMAIN byPath BY <2>1, <2>2
  <2> QED BY <1>1, <2>1, <2>2, <2>3 DEF TypeOK, IInv, Ordered, Later, Script
<1>3. Readable(rel) BY <1>2 DEF IInv, DirectAreStarted
<1>4. content[rel].runs /\ j \in DOMAIN content[rel].names /\ Item = p /\ p \in Paths
  <2>1. Round = IF content[rel].runs THEN content[rel].names ELSE << >> BY <1>1, RoundIs
  <2>2. content[rel].runs BY <1>1, <2>1 DEF HasItem
  <2>3. content[rel].names \in Seq(Paths) BY <1>1, <1>2, <1>3, RepositoryTypes
  <2> QED BY <1>1, <2>1, <2>2, <2>3 DEF HasItem, Item
<1> DEFINE b == add(owner, p, {}, rel)
<1>5. /\ byPath' = IF p # rel /\ p \in DOMAIN b /\ b[p].via = rel
                   THEN [b EXCEPT ![p].launchers = @ \cup byPath[rel].launchers]
                   ELSE IF p = rel THEN byPath ELSE b
      /\ order' = IF p = rel THEN order ELSE Appended(p)
      /\ at' = <<i, j + 1>>
      /\ stage' = stage /\ direct' = direct /\ shipped' = shipped /\ helpers' = helpers /\ UNCHANGED repository
  BY <1>4 DEF FollowSibling, NextItem
<1> HIDE DEF p
<1>6. /\ DOMAIN b = With(p)
      /\ \A q : q \in DOMAIN b <=> q \in DOMAIN byPath \/ (q = p /\ Readable(p))
      /\ \A q \in DOMAIN byPath :
            /\ b[q].owner = byPath[q].owner /\ b[q].via = byPath[q].via /\ b[q].launchers = byPath[q].launchers
      /\ p \notin DOMAIN byPath /\ Readable(p) => b[p] = [owner |-> owner, launchers |-> {}, via |-> rel]
      /\ \A q \in DOMAIN b : b[q] \in Script
  <2>1. owner \in DOMAIN targets BY <1>2 DEF Script
  <2>2. Extends(b, owner, p, {}, rel) BY <1>1, <1>2, <1>4, <2>1, AddIs
  <2> HIDE DEF b
  <2> QED BY <2>2, WithIs DEF Extends
<1> HIDE DEF b
(* What was there stays as it is; a new script has the launchers of rel.     *)
<1>7. /\ DOMAIN byPath' = With(p)
      /\ \A q : q \in DOMAIN byPath' <=> q \in DOMAIN byPath \/ (q = p /\ Readable(p))
      /\ \A q \in DOMAIN byPath :
            /\ byPath'[q].owner = byPath[q].owner /\ byPath'[q].via = byPath[q].via
            /\ byPath'[q].launchers = byPath[q].launchers
      /\ p \notin DOMAIN byPath /\ Readable(p) =>
            /\ byPath'[p].owner = owner /\ byPath'[p].via = rel /\ p # rel
            /\ byPath'[p].launchers = byPath[rel].launchers
      /\ \A q \in DOMAIN byPath' : byPath'[q] \in Script
  <2>1. CASE p = rel
    <3>1. byPath' = byPath BY <1>5, <2>1
    <3>2. \A q \in DOMAIN byPath : byPath[q] \in Script BY <1>1 DEF TypeOK, Script
    <3>3. DOMAIN byPath = With(p) BY <1>2, <2>1 DEF With
    <3> QED BY <1>2, <2>1, <3>1, <3>2, <3>3
  <2>2. CASE p # rel /\ p \in DOMAIN b /\ b[p].via = rel
    <3>1. byPath' = [b EXCEPT ![p].launchers = @ \cup byPath[rel].launchers] BY <1>5, <2>2
    <3>2. DOMAIN byPath' = DOMAIN b BY <3>1
    <3>3. \A q \in DOMAIN b : q # p => byPath'[q] = b[q] BY <3>1
    <3>4. byPath'[p] = [b[p] EXCEPT !.launchers = @ \cup byPath[rel].launchers] BY <2>2, <3>1
    <3>5. b[p] \in Script /\ byPath[rel].launchers \in SUBSET Paths BY <1>2, <1>6, <2>2 DEF Script
    <3>6. /\ byPath'[p].owner = b[p].owner /\ byPath'[p].via = b[p].via
          /\ byPath'[p].launchers = b[p].launchers \cup byPath[rel].launchers /\ byPath'[p] \in Script
      BY <3>4, <3>5 DEF Script
    <3>7. p \in DOMAIN byPath => byPath[p].launchers = byPath[rel].launchers
      <4>1. p \in DOMAIN byPath => byPath[p].via = rel BY <1>6, <2>2
      <4>2. rel # None BY <1>2, LaunchedAssumption DEF LaunchedAssumption
      <4> QED BY <4>1, <4>2 DEF IInv, SiblingsNamed
    <3>8. \A q \in DOMAIN byPath :
             /\ byPath'[q].owner = byPath[q].owner /\ byPath'[q].via = byPath[q].via
             /\ byPath'[q].launchers = byPath[q].launchers
      <4> SUFFICES ASSUME NEW q \in DOMAIN byPath
                   PROVE  /\ byPath'[q].owner = byPath[q].owner /\ byPath'[q].via = byPath[q].via
                          /\ byPath'[q].launchers = byPath[q].launchers
        OBVIOUS
      <4>1. q \in DOMAIN b BY <1>6
      <4>2. CASE q # p BY <1>6, <3>3, <4>1, <4>2
      <4>3. CASE q = p BY <1>6, <3>6, <3>7, <4>3
      <4> QED BY <4>2, <4>3
    <3>9. p \notin DOMAIN byPath /\ Readable(p) =>
             /\ byPath'[p].owner = owner /\ byPath'[p].via = rel /\ p # rel
             /\ byPath'[p].launchers = byPath[rel].launchers
      <4> SUFFICES ASSUME p \notin DOMAIN byPath, Readable(p)
                   PROVE  /\ byPath'[p].owner = owner /\ byPath'[p].via = rel /\ p # rel
                          /\ byPath'[p].launchers = byPath[rel].launchers
        OBVIOUS
      <4>1. b[p] = [owner |-> owner, launchers |-> {}, via |-> rel] BY <1>6
      <4>2. b[p].owner = owner /\ b[p].via = rel /\ b[p].launchers = {} BY <4>1
      <4> QED BY <2>2, <3>6, <4>2
    <3>10. \A q \in DOMAIN byPath' : byPath'[q] \in Script BY <1>6, <3>2, <3>3, <3>6
    <3> QED BY <1>6, <3>2, <3>8, <3>9, <3>10
  <2>3. CASE p # rel /\ ~ (p \in DOMAIN b /\ b[p].via = rel)
    <3>1. byPath' = b BY <1>5, <2>3
    <3>2. ~ (p \notin DOMAIN byPath /\ Readable(p)) BY <1>6, <2>3
    <3> QED BY <1>6, <3>1, <3>2
  <2> QED BY <2>1, <2>2, <2>3
<1>8. order' = Appended(p) BY <1>2, <1>5 DEF Appended
<1>9. /\ Appended(p) \in Seq(DOMAIN byPath')
      /\ Len(Appended(p)) \in Nat /\ Len(order) <= Len(Appended(p))
      /\ \A k \in 1..Len(order) : Appended(p)[k] = order[k]
      /\ \A q \in DOMAIN byPath' : \E k \in DOMAIN Appended(p) : Appended(p)[k] = q
  BY <1>1, <1>4, <1>7, AppendedIs DEF IInv, Ordered
<1>10. /\ \A q : /\ Readable(q)' = Readable(q) /\ Starters(q)' = Starters(q) /\ Hookers(q)' = Hookers(q)
                  /\ StartFiles(q)' = StartFiles(q) /\ \A r : Names(q, r)' = Names(q, r)
       /\ InstructionFiles' = InstructionFiles
  BY <1>5, SameRepository
<1>11. \A k \in 1..direct : order'[k] = order[k] /\ order[k] \in DOMAIN byPath
  BY <1>1, <1>2, <1>8, <1>9 DEF TypeOK
<1>12. Names(rel, p) \/ p = rel
  <2>1. Started(rel) BY <1>2, <1>3 DEF IInv, DirectAreStarted, Started
  <2>2. \E k \in DOMAIN content[rel].names : content[rel].names[k] = p BY <1>4 DEF p
  <2> QED BY <1>4, <2>1, <2>2 DEF Names
<1>13. TypeOK'
  <2>1. direct \in 0..Len(Appended(p)) BY <1>2, <1>9
  <2>2. targets' = targets /\ content' = content /\ packages' = packages BY <1>5 DEF repository
  <2>3. DOMAIN byPath' \subseteq Paths BY <1>1, <1>4, <1>7 DEF TypeOK
  <2>4. \A q \in DOMAIN byPath' :
            byPath'[q] \in [owner : DOMAIN targets', launchers : SUBSET Paths, via : Paths \cup {None}]
    BY <1>7, <2>2 DEF Script
  <2>5. order' \in Seq(DOMAIN byPath') /\ direct' \in 0..Len(order') BY <1>5, <1>8, <1>9, <2>1
  <2>6. at' \in (Nat \ {0}) \X (Nat \ {0}) BY <1>1, <1>5 DEF TypeOK
  <2> QED BY <1>1, <1>5, <2>2, <2>3, <2>4, <2>5, <2>6 DEF TypeOK
<1>14. Ordered'
  <2>1. \A k \in 1..direct : byPath'[order'[k]].via = None
    BY <1>1, <1>7, <1>11 DEF IInv, Ordered, Later
  <2>2. \A q \in DOMAIN byPath' : byPath'[q].via = None => \E k \in 1..direct : order'[k] = q
    <3> SUFFICES ASSUME NEW q \in DOMAIN byPath', byPath'[q].via = None PROVE \E k \in 1..direct : order'[k] = q
      OBVIOUS
    <3>1. q \in DOMAIN byPath /\ byPath[q].via = None
      BY <1>2, <1>7, LaunchedAssumption DEF LaunchedAssumption
    <3> QED BY <1>1, <1>11, <3>1 DEF IInv, Ordered, Later
  <2> QED BY <1>1, <1>5, <1>8, <1>9, <2>1, <2>2 DEF Ordered, Later
<1>15. DirectAreStarted'
  <2>1. rel # None BY <1>2, LaunchedAssumption DEF LaunchedAssumption
  <2> QED BY <1>7, <1>10, <2>1 DEF IInv, DirectAreStarted
<1>16. OwnersSoFar' BY <1>1, <1>5 DEF OwnersSoFar
<1>17. CommandsAdded'
  BY <1>1, <1>5, <1>7, <1>10 DEF IInv, CommandsAdded, CommandPassed, repository
<1>18. HooksAdded'
  BY <1>1, <1>5, <1>7, <1>10 DEF IInv, HooksAdded, HookPassed, repository
<1>19. SiblingsNamed'
  <2> SUFFICES ASSUME NEW q \in DOMAIN byPath', byPath'[q].via # None
               PROVE  LET r == byPath'[q].via IN
                      /\ r \in DOMAIN byPath' /\ byPath'[r].via = None
                      /\ Names(r, q) /\ byPath'[q].launchers = byPath'[r].launchers
    BY <1>10 DEF SiblingsNamed
  <2>1. CASE q \in DOMAIN byPath
    BY <1>7, <2>1 DEF IInv, SiblingsNamed
  <2>2. CASE q \notin DOMAIN byPath
    BY <1>2, <1>7, <1>12, <2>2
  <2> QED BY <2>1, <2>2
<1>20. SiblingsAdded'
  <2> SUFFICES ASSUME NEW k \in 1..direct, content[order[k]].runs, NEW n \in DOMAIN content[order[k]].names,
                      SiblingPassed(k, n)', Readable(content[order[k]].names[n])
               PROVE  content[order[k]].names[n] \in DOMAIN byPath'
    BY <1>5, <1>10, <1>11 DEF SiblingsAdded, repository
  <2>1. order[k] \in Paths /\ Readable(order[k]) BY <1>1, <1>11 DEF TypeOK, IInv, DirectAreStarted
  <2>2. content[order[k]].names \in Seq(Paths) BY <1>1, <2>1, RepositoryTypes
  <2>3. n \in Nat /\ k \in Nat BY <1>2, <2>2
  <2>4. Passed(k, n) \/ (k = i /\ n = j) BY <1>1, <1>2, <1>5, <2>3 DEF SiblingPassed, Passed
  <2>5. CASE Passed(k, n)
    <3>1. content[order[k]].names[n] \in DOMAIN byPath
      BY <1>1, <2>5 DEF IInv, SiblingsAdded, SiblingPassed, Later
    <3> QED BY <1>7, <3>1
  <2>6. CASE k = i /\ n = j
    <3>1. content[order[k]].names[n] = p BY <2>6 DEF p
    <3> QED BY <1>7, <3>1
  <2> QED BY <2>4, <2>5, <2>6
<1>21. GivenOnce'
  <2>1. shipped = {} /\ helpers = {} BY <1>1 DEF IInv, GivenOnce
  <2> QED BY <1>5, <2>1 DEF GivenOnce
<1>22. SkillsRead' BY <1>1, <1>5 DEF SkillsRead
<1> QED BY <1>13, <1>14, <1>15, <1>16, <1>17, <1>18, <1>19, <1>20, <1>21, <1>22 DEF IInv
-----------------------------------------------------------------------------
(* A round without an item has passed all of its sequence.                   *)
LEMMA RoundDone ==
    ASSUME TypeOK, ~ HasItem, at[1] <= Rounds, stage \in {"commands", "hooks"} \/ order[at[1]] \in DOMAIN byPath,
           \A p \in DOMAIN byPath : Readable(p)
    PROVE  /\ stage = "commands" => \A j \in DOMAIN targets[at[1]].commands : j < at[2]
           /\ stage = "hooks" => \A j \in DOMAIN targets[at[1]].hooks : j < at[2]
           /\ stage = "siblings" /\ content[order[at[1]]].runs => \A j \in DOMAIN content[order[at[1]]].names : j < at[2]
<1>1. at[2] \notin DOMAIN Round /\ at[2] \in Nat /\ at[2] > 0 BY DEF HasItem, TypeOK
<1>2. ASSUME NEW s, NEW S, s \in Seq(S), at[2] \notin DOMAIN s PROVE \A j \in DOMAIN s : j < at[2]
  <2>1. DOMAIN s = 1..Len(s) /\ Len(s) \in Nat BY <1>2
  <2> QED BY <1>1, <1>2, <2>1
<1>3. CASE stage = "commands"
  <2>1. targets[at[1]].commands \in Seq(Command) /\ Round = targets[at[1]].commands BY <1>3, RoundIs, RepositoryTypes
  <2> QED BY <1>1, <1>2, <1>3, <2>1
<1>4. CASE stage = "hooks"
  <2>1. targets[at[1]].hooks \in Seq(Paths) /\ Round = targets[at[1]].hooks BY <1>4, RoundIs, RepositoryTypes
  <2> QED BY <1>1, <1>2, <1>4, <2>1
<1>5. CASE stage = "siblings" /\ content[order[at[1]]].runs
  <2>1. order[at[1]] \in Paths /\ Readable(order[at[1]]) BY <1>5 DEF TypeOK
  <2>2. content[order[at[1]]].names \in Seq(Paths) /\ Round = content[order[at[1]]].names
    BY <1>5, <2>1, RoundIs, RepositoryTypes
  <2> QED BY <1>1, <1>2, <1>5, <2>2
<1> QED BY <1>3, <1>4, <1>5

LEMMA NextRoundKeeps ==
    ASSUME IInv, NextRound
    PROVE  IInv'
<1> DEFINE i == at[1]
<1>1. /\ TypeOK /\ stage \in {"commands", "hooks", "siblings"} /\ at[1] <= Rounds /\ ~ HasItem
      /\ i \in Nat \ {0} /\ at[2] \in Nat \ {0}
  BY DEF IInv, NextRound, TypeOK
<1>2. /\ at' = <<i + 1, 1>> /\ stage' = stage /\ byPath' = byPath /\ order' = order /\ direct' = direct
      /\ shipped' = shipped /\ helpers' = helpers /\ UNCHANGED repository
  BY DEF NextRound
<1>3. /\ \A p : /\ Readable(p)' = Readable(p) /\ Starters(p)' = Starters(p) /\ Hookers(p)' = Hookers(p)
                 /\ StartFiles(p)' = StartFiles(p) /\ \A q : Names(q, p)' = Names(q, p)
      /\ InstructionFiles' = InstructionFiles
      /\ targets' = targets /\ content' = content /\ packages' = packages
  BY <1>2, SameRepository DEF repository
<1>4. /\ stage = "commands" => \A j \in DOMAIN targets[i].commands : j < at[2]
      /\ stage = "hooks" => \A j \in DOMAIN targets[i].hooks : j < at[2]
      /\ stage = "siblings" /\ content[order[i]].runs => \A j \in DOMAIN content[order[i]].names : j < at[2]
  <2>1. \A p \in DOMAIN byPath : Readable(p) BY DEF IInv, DirectAreStarted
  <2>2. stage = "siblings" => order[i] \in DOMAIN byPath
    <3>1. stage = "siblings" => i \in 1..direct BY <1>1, RoundIs
    <3> QED BY <1>1, <3>1 DEF TypeOK
  <2> QED BY <1>1, <2>1, <2>2, RoundDone
<1>5. \A u, k \in Nat \ {0} : Passed(u, k)' => Passed(u, k) \/ u = i
  BY <1>1, <1>2 DEF Passed
<1>6. TypeOK' BY <1>1, <1>2, <1>3 DEF TypeOK
<1>7. Ordered' BY <1>2 DEF IInv, Ordered
<1>8. DirectAreStarted' BY <1>2, <1>3 DEF IInv, DirectAreStarted
<1>9. OwnersSoFar'
  <2>1. \A p \in DOMAIN byPath : byPath[p].owner \in Nat BY <1>1, RepositoryTypes DEF TypeOK
  <2> QED BY <1>1, <1>2, <1>3, <2>1 DEF IInv, OwnersSoFar
<1>10. CommandsAdded'
  <2>1. \A u \in DOMAIN targets : \A k \in DOMAIN targets[u].commands : u \in Nat \ {0} /\ k \in Nat \ {0}
    BY <1>1, RepositoryTypes
  <2>2. \A u \in DOMAIN targets : \A k \in DOMAIN targets[u].commands : CommandPassed(u, k)' => CommandPassed(u, k)
    BY <1>2, <1>4, <1>5, <2>1 DEF CommandPassed, Passed
  <2> QED BY <1>2, <1>3, <2>2 DEF IInv, CommandsAdded
<1>11. HooksAdded'
  <2>1. \A u \in DOMAIN targets : \A k \in DOMAIN targets[u].hooks : u \in Nat \ {0} /\ k \in Nat \ {0}
    BY <1>1, RepositoryTypes
  <2>2. \A u \in DOMAIN targets : \A k \in DOMAIN targets[u].hooks : HookPassed(u, k)' => HookPassed(u, k)
    BY <1>2, <1>4, <1>5, <2>1 DEF HookPassed, Passed
  <2> QED BY <1>2, <1>3, <2>2 DEF IInv, HooksAdded
<1>12. SiblingsNamed' BY <1>2, <1>3 DEF IInv, SiblingsNamed
<1>13. SiblingsAdded'
  <2> SUFFICES ASSUME stage = "siblings", NEW k \in 1..direct, content[order[k]].runs,
                      NEW n \in DOMAIN content[order[k]].names,
                      SiblingPassed(k, n)', Readable(content[order[k]].names[n])
               PROVE  content[order[k]].names[n] \in DOMAIN byPath
    BY <1>1, <1>2, <1>3 DEF SiblingsAdded, Later
  <2>1. order[k] \in Paths /\ Readable(order[k])
    <3>1. order[k] \in DOMAIN byPath BY <1>1 DEF TypeOK
    <3> QED BY <1>1, <3>1 DEF TypeOK, IInv, DirectAreStarted
  <2>2. n \in Nat \ {0} /\ k \in Nat \ {0}
    <3>1. content[order[k]].names \in Seq(Paths) BY <1>1, <2>1, RepositoryTypes
    <3>2. direct \in Nat BY <1>1 DEF TypeOK
    <3> QED BY <3>1, <3>2
  <2>3. Passed(k, n) BY <1>2, <1>4, <1>5, <2>2 DEF SiblingPassed, Passed
  <2> QED BY <2>3 DEF IInv, SiblingsAdded, SiblingPassed, Later
<1>14. GivenOnce' BY <1>2, <1>3 DEF IInv, GivenOnce
<1>15. SkillsRead' BY <1>1, <1>2 DEF SkillsRead
<1> QED BY <1>6, <1>7, <1>8, <1>9, <1>10, <1>11, <1>12, <1>13, <1>14, <1>15 DEF IInv

(* A loop that has run over its last round has passed every item.            *)
LEMMA HooksNextKeeps ==
    ASSUME IInv, HooksNext
    PROVE  IInv'
<1>1. /\ TypeOK /\ stage = "commands" /\ at[1] > Len(targets) /\ stage' = "hooks" /\ at' = <<1, 1>>
      /\ byPath' = byPath /\ order' = order /\ direct' = direct
      /\ shipped' = shipped /\ helpers' = helpers /\ UNCHANGED repository
  BY DEF IInv, HooksNext, Rounds
<1>2. /\ \A p : /\ Readable(p)' = Readable(p) /\ Starters(p)' = Starters(p) /\ Hookers(p)' = Hookers(p)
                 /\ StartFiles(p)' = StartFiles(p) /\ \A q : Names(q, p)' = Names(q, p)
      /\ InstructionFiles' = InstructionFiles
      /\ targets' = targets /\ content' = content /\ packages' = packages
  BY <1>1, SameRepository DEF repository
<1>3. \A t \in DOMAIN targets : t \in Nat /\ t < at[1] /\ \A j \in DOMAIN targets[t].hooks : j \in Nat /\ j >= 1 /\ t >= 1
  BY <1>1, RepositoryTypes DEF TypeOK
<1>4. TypeOK' BY <1>1, <1>2 DEF TypeOK, Stages
<1>5. Ordered' BY <1>1 DEF IInv, Ordered, Later
<1>6. DirectAreStarted' BY <1>1, <1>2 DEF IInv, DirectAreStarted
<1>7. OwnersSoFar' BY <1>1, <1>2 DEF IInv, OwnersSoFar
<1>8. CommandsAdded'
  <2>1. \A t \in DOMAIN targets : \A j \in DOMAIN targets[t].commands : CommandPassed(t, j)
    BY <1>1, <1>3 DEF CommandPassed, Passed
  <2> QED BY <1>1, <1>2, <2>1 DEF IInv, CommandsAdded
<1>9. HooksAdded'
  <2>1. \A t \in DOMAIN targets : \A j \in DOMAIN targets[t].hooks : ~ HookPassed(t, j)'
    BY <1>1, <1>3 DEF HookPassed, Passed
  <2> QED BY <1>2, <2>1 DEF HooksAdded
<1>10. SiblingsNamed' BY <1>1, <1>2 DEF IInv, SiblingsNamed
<1>11. SiblingsAdded' /\ SkillsRead' BY <1>1 DEF SiblingsAdded, SkillsRead, Later
<1>12. GivenOnce' BY <1>1, <1>2 DEF IInv, GivenOnce
<1> QED BY <1>4, <1>5, <1>6, <1>7, <1>8, <1>9, <1>10, <1>11, <1>12 DEF IInv

LEMMA SiblingsNextKeeps ==
    ASSUME IInv, SiblingsNext
    PROVE  IInv'
<1>1. /\ TypeOK /\ stage = "hooks" /\ at[1] > Len(targets) /\ stage' = "siblings" /\ at' = <<1, 1>>
      /\ direct' = Len(order) /\ byPath' = byPath /\ order' = order
      /\ shipped' = shipped /\ helpers' = helpers /\ UNCHANGED repository
  BY DEF IInv, SiblingsNext, Rounds
<1>2. /\ \A p : /\ Readable(p)' = Readable(p) /\ Starters(p)' = Starters(p) /\ Hookers(p)' = Hookers(p)
                 /\ StartFiles(p)' = StartFiles(p) /\ \A q : Names(q, p)' = Names(q, p)
      /\ InstructionFiles' = InstructionFiles
      /\ targets' = targets /\ content' = content /\ packages' = packages
  BY <1>1, SameRepository DEF repository
<1>3. \A t \in DOMAIN targets : t < at[1]
  BY <1>1, RepositoryTypes DEF TypeOK
<1>4. order \in Seq(DOMAIN byPath) /\ Len(order) \in Nat /\ DOMAIN order = 1..Len(order)
      /\ \A p \in DOMAIN byPath : byPath[p].via = None
  BY <1>1 DEF TypeOK, IInv, Ordered, Later
<1>5. TypeOK' BY <1>1, <1>2, <1>4 DEF TypeOK, Stages
<1>6. Ordered' BY <1>1, <1>4 DEF IInv, Ordered, Later
<1>7. DirectAreStarted' BY <1>1, <1>2 DEF IInv, DirectAreStarted
<1>8. OwnersSoFar' BY <1>1 DEF OwnersSoFar
<1>9. CommandsAdded' BY <1>1, <1>2 DEF IInv, CommandsAdded, CommandPassed
<1>10. HooksAdded'
  <2>1. \A t \in DOMAIN targets : \A j \in DOMAIN targets[t].hooks : HookPassed(t, j)
    BY <1>1, <1>3 DEF HookPassed, Passed
  <2> QED BY <1>1, <1>2, <2>1 DEF IInv, HooksAdded
<1>11. SiblingsNamed' BY <1>1, <1>2 DEF IInv, SiblingsNamed
<1>12. SiblingsAdded'
  <2> SUFFICES ASSUME NEW k \in 1..Len(order), NEW n \in DOMAIN content[order[k]].names
               PROVE  ~ SiblingPassed(k, n)'
    BY <1>1, <1>2 DEF SiblingsAdded
  <2>1. order[k] \in Paths /\ Readable(order[k]) BY <1>1, <1>4 DEF TypeOK, IInv, DirectAreStarted
  <2>2. content[order[k]].names \in Seq(Paths) BY <1>1, <2>1, RepositoryTypes
  <2> QED BY <1>1, <1>4, <2>2 DEF SiblingPassed, Passed
<1>13. GivenOnce' BY <1>1, <1>2 DEF IInv, GivenOnce
<1>14. SkillsRead' BY <1>1 DEF SkillsRead
<1> QED BY <1>5, <1>6, <1>7, <1>8, <1>9, <1>10, <1>11, <1>12, <1>13, <1>14 DEF IInv

LEMMA SkillsNextKeeps ==
    ASSUME IInv, SkillsNext
    PROVE  IInv'
<1>1. /\ TypeOK /\ stage = "siblings" /\ at[1] > direct /\ stage' = "skills" /\ at' = <<1, 1>>
      /\ direct' = direct /\ byPath' = byPath /\ order' = order
      /\ shipped' = shipped /\ helpers' = helpers /\ UNCHANGED repository
  BY DEF IInv, SkillsNext, Rounds
<1>2. /\ \A p : /\ Readable(p)' = Readable(p) /\ Starters(p)' = Starters(p) /\ Hookers(p)' = Hookers(p)
                 /\ StartFiles(p)' = StartFiles(p) /\ \A q : Names(q, p)' = Names(q, p)
      /\ InstructionFiles' = InstructionFiles
      /\ targets' = targets /\ content' = content /\ packages' = packages
  BY <1>1, SameRepository DEF repository
<1>3. \A k \in 1..direct : k < at[1] BY <1>1 DEF TypeOK
<1>4. TypeOK' BY <1>1, <1>2 DEF TypeOK, Stages
<1>5. Ordered' BY <1>1 DEF IInv, Ordered, Later
<1>6. DirectAreStarted' BY <1>1, <1>2 DEF IInv, DirectAreStarted
<1>7. OwnersSoFar' BY <1>1 DEF OwnersSoFar
<1>8. CommandsAdded' BY <1>1, <1>2 DEF IInv, CommandsAdded, CommandPassed
<1>9. HooksAdded' BY <1>1, <1>2 DEF IInv, HooksAdded, HookPassed
<1>10. SiblingsNamed' BY <1>1, <1>2 DEF IInv, SiblingsNamed
<1>11. SiblingsAdded'
  <2>1. \A k \in 1..direct : \A n : SiblingPassed(k, n) BY <1>1, <1>3 DEF SiblingPassed, Passed
  <2> QED BY <1>1, <1>2, <2>1 DEF IInv, SiblingsAdded, Later
<1>12. GivenOnce' BY <1>1, <1>2 DEF IInv, GivenOnce
<1>13. SkillsRead'
  <2>1. DOMAIN AllTargets \subseteq Nat \ {0}
    <3>1. targets \in Seq(Target) /\ packages \in Seq(Target) BY <1>1, RepositoryTypes
    <3> QED BY <3>1 DEF AllTargets
  <2>2. AllTargets' = AllTargets BY <1>1, SameRepository
  <2> QED BY <1>1, <2>1, <2>2 DEF SkillsRead
<1> QED BY <1>4, <1>5, <1>6, <1>7, <1>8, <1>9, <1>10, <1>11, <1>12, <1>13 DEF IInv

LEMMA ShipSkillKeeps ==
    ASSUME IInv, ShipSkill
    PROVE  IInv'
<1> DEFINE k == at[1]  found == Found(k)  md == {p \in found : Ext[p] = "md"}
<1>1. /\ TypeOK /\ stage = "skills" /\ k \in Nat \ {0} /\ k <= Len(AllTargets)
      /\ helpers' = helpers \cup md /\ shipped' = shipped \cup {<<k, p>> : p \in found \ md}
      /\ at' = <<k + 1, 1>> /\ stage' = stage /\ byPath' = byPath /\ order' = order /\ direct' = direct
      /\ UNCHANGED repository
  BY DEF IInv, ShipSkill, TypeOK
<1>2. /\ \A p : /\ Readable(p)' = Readable(p) /\ Starters(p)' = Starters(p) /\ Hookers(p)' = Hookers(p)
                 /\ StartFiles(p)' = StartFiles(p) /\ \A q : Names(q, p)' = Names(q, p)
      /\ InstructionFiles' = InstructionFiles /\ AllTargets' = AllTargets
      /\ \A j : Dropped(j)' = Dropped(j)
      /\ \A t, p : Ships(t, p)' = Ships(t, p)
      /\ targets' = targets /\ content' = content /\ packages' = packages
  BY <1>1, SameRepository DEF repository
<1>3. found \subseteq Paths /\ md \subseteq found /\ \A p \in found : p \notin Known BY DEF Found
<1>4. TypeOK' BY <1>1, <1>2, <1>3 DEF TypeOK
<1>5. Ordered' BY <1>1 DEF IInv, Ordered
<1>6. DirectAreStarted' BY <1>1, <1>2 DEF IInv, DirectAreStarted
<1>7. OwnersSoFar' BY <1>1 DEF OwnersSoFar
<1>8. CommandsAdded' BY <1>1, <1>2 DEF IInv, CommandsAdded, CommandPassed
<1>9. HooksAdded' BY <1>1, <1>2 DEF IInv, HooksAdded, HookPassed
<1>10. SiblingsNamed' BY <1>1, <1>2 DEF IInv, SiblingsNamed
<1>11. SiblingsAdded' BY <1>1, <1>2 DEF IInv, SiblingsAdded, SiblingPassed
<1>12. \A p : p \in Known <=> \/ p \in InstructionFiles \/ p \in DOMAIN byPath \/ p \in helpers
                             \/ \E s \in shipped : s[2] = p
  BY DEF Known
<1>13. \A s \in shipped' : s \in shipped \/ \E p \in found \ md : s = <<k, p>> BY <1>1
<1>14. GivenOnce'
  <2>1. \A s \in shipped' : s[2] \notin DOMAIN byPath \cup InstructionFiles \cup (helpers \cup md)
    <3> SUFFICES ASSUME NEW s \in shipped' PROVE s[2] \notin DOMAIN byPath \cup InstructionFiles \cup (helpers \cup md)
      OBVIOUS
    <3>1. CASE s \in shipped BY <1>3, <1>12, <3>1 DEF IInv, GivenOnce
    <3>2. CASE \E p \in found \ md : s = <<k, p>> BY <1>3, <1>12, <3>2
    <3> QED BY <1>13, <3>1, <3>2
  <2>2. \A r, s \in shipped' : r[2] = s[2] => r = s
    <3> SUFFICES ASSUME NEW r \in shipped', NEW s \in shipped', r[2] = s[2] PROVE r = s
      OBVIOUS
    <3>1. CASE r \in shipped /\ s \in shipped BY <3>1 DEF IInv, GivenOnce
    <3>2. CASE r \in shipped /\ \E p \in found \ md : s = <<k, p>> BY <1>3, <1>12, <3>2
    <3>3. CASE s \in shipped /\ \E p \in found \ md : r = <<k, p>> BY <1>3, <1>12, <3>3
    <3>4. CASE (\E p \in found \ md : s = <<k, p>>) /\ (\E p \in found \ md : r = <<k, p>>) BY <3>4
    <3> QED BY <1>13, <3>1, <3>2, <3>3, <3>4
  <2>3. (helpers \cup md) \cap (DOMAIN byPath \cup InstructionFiles) = {}
    BY <1>3, <1>12 DEF IInv, GivenOnce
  <2> QED BY <1>1, <1>2, <2>1, <2>2, <2>3 DEF GivenOnce
<1>15. SkillsRead'
  <2>1. \A p : p \in Known \/ p \in found => p \in Known'
    <3>1. \A p \in found \ md : \E s \in shipped' : s[2] = p
      <4> SUFFICES ASSUME NEW p \in found \ md PROVE \E s \in shipped' : s[2] = p
        OBVIOUS
      <4>1. <<k, p>> \in shipped' BY <1>1
      <4>2. <<k, p>>[2] = p OBVIOUS
      <4> QED BY <4>1, <4>2
    <3>2. \A p : p \in Known' <=> \/ p \in InstructionFiles' \/ p \in DOMAIN byPath' \/ p \in helpers'
                                 \/ \E s \in shipped' : s[2] = p
      BY DEF Known
    <3>3. \A p : p \in Known => p \in Known' BY <1>1, <1>2, <1>12, <3>2
    <3> QED BY <1>1, <3>1, <3>2, <3>3
  <2>2. DOMAIN AllTargets \subseteq Nat
    <3>1. targets \in Seq(Target) /\ packages \in Seq(Target) BY <1>1, RepositoryTypes
    <3> QED BY <3>1 DEF AllTargets
  <2> SUFFICES ASSUME NEW j \in DOMAIN AllTargets, j < k + 1, NEW p \in Paths, ~ Dropped(j), Ships(AllTargets[j], p)
               PROVE  p \in Known'
    BY <1>1, <1>2 DEF SkillsRead
  <2>3. CASE j < k BY <1>1, <2>1, <2>3 DEF IInv, SkillsRead
  <2>4. CASE j = k BY <2>1, <2>4 DEF Found
  <2> QED BY <1>1, <2>2, <2>3, <2>4
<1> QED BY <1>4, <1>5, <1>6, <1>7, <1>8, <1>9, <1>10, <1>11, <1>14, <1>15 DEF IInv

LEMMA FinishKeeps ==
    ASSUME IInv, Finish
    PROVE  IInv'
<1>1. /\ TypeOK /\ stage = "skills" /\ at[1] > Len(AllTargets) /\ stage' = "done" /\ at' = <<1, 1>>
      /\ direct' = direct /\ byPath' = byPath /\ order' = order
      /\ shipped' = shipped /\ helpers' = helpers /\ UNCHANGED repository
  BY DEF IInv, Finish
<1>2. /\ \A p : /\ Readable(p)' = Readable(p) /\ Starters(p)' = Starters(p) /\ Hookers(p)' = Hookers(p)
                 /\ StartFiles(p)' = StartFiles(p) /\ \A q : Names(q, p)' = Names(q, p)
      /\ InstructionFiles' = InstructionFiles /\ AllTargets' = AllTargets
      /\ \A j : Dropped(j)' = Dropped(j)
      /\ \A t, p : Ships(t, p)' = Ships(t, p)
      /\ targets' = targets /\ content' = content /\ packages' = packages
  BY <1>1, SameRepository DEF repository
<1>3. TypeOK' BY <1>1, <1>2 DEF TypeOK, Stages
<1>4. Ordered' BY <1>1 DEF IInv, Ordered, Later
<1>5. DirectAreStarted' BY <1>1, <1>2 DEF IInv, DirectAreStarted
<1>6. OwnersSoFar' BY <1>1 DEF OwnersSoFar
<1>7. CommandsAdded' BY <1>1, <1>2 DEF IInv, CommandsAdded, CommandPassed
<1>8. HooksAdded' BY <1>1, <1>2 DEF IInv, HooksAdded, HookPassed
<1>9. SiblingsNamed' BY <1>1, <1>2 DEF IInv, SiblingsNamed
<1>10. SiblingsAdded' BY <1>1, <1>2 DEF IInv, SiblingsAdded, SiblingPassed, Later
<1>11. GivenOnce' BY <1>1, <1>2 DEF IInv, GivenOnce
<1>12. SkillsRead'
  <2>1. \A k \in DOMAIN AllTargets : k < at[1]
    <3>1. targets \in Seq(Target) /\ packages \in Seq(Target) BY <1>1, RepositoryTypes
    <3> QED BY <1>1, <3>1 DEF AllTargets, TypeOK
  <2>2. Known' = Known BY <1>1, <1>2 DEF Known
  <2> QED BY <1>1, <1>2, <2>1, <2>2 DEF IInv, SkillsRead
<1> QED BY <1>3, <1>4, <1>5, <1>6, <1>7, <1>8, <1>9, <1>10, <1>11, <1>12 DEF IInv
-----------------------------------------------------------------------------
LEMMA Initially == Init => IInv
<1> SUFFICES ASSUME Init PROVE IInv
  OBVIOUS
<1>1. /\ stage = "commands" /\ at = <<1, 1>> /\ byPath = << >> /\ order = << >> /\ direct = 0
      /\ shipped = {} /\ helpers = {}
  BY DEF Init
<1>2. DOMAIN byPath = {} BY <1>1
<1>3. TypeOK
  <2>1. order \in Seq(DOMAIN byPath) /\ direct \in 0..Len(order) BY <1>1
  <2> QED BY <1>1, <1>2, <2>1 DEF Init, TypeOK, Stages
<1>4. Ordered /\ DirectAreStarted /\ OwnersSoFar /\ SiblingsNamed BY <1>1, <1>2 DEF Ordered, DirectAreStarted, OwnersSoFar, SiblingsNamed, Later
<1>5. CommandsAdded
  <2>1. \A t \in DOMAIN targets : \A j \in DOMAIN targets[t].commands : t \in Nat \ {0} /\ j \in Nat \ {0}
    BY <1>3, RepositoryTypes
  <2> QED BY <1>1, <2>1 DEF CommandsAdded, CommandPassed, Passed
<1>6. HooksAdded BY <1>1 DEF HooksAdded, HookPassed
<1>7. SiblingsAdded /\ GivenOnce /\ SkillsRead BY <1>1 DEF SiblingsAdded, GivenOnce, SkillsRead, Later
<1> QED BY <1>3, <1>4, <1>5, <1>6, <1>7 DEF IInv

LEMMA StutterKeeps ==
    ASSUME IInv, UNCHANGED vars
    PROVE  IInv'
<1>1. /\ UNCHANGED repository /\ content' = content /\ targets' = targets /\ packages' = packages
      /\ stage' = stage /\ at' = at /\ byPath' = byPath /\ order' = order /\ direct' = direct
      /\ shipped' = shipped /\ helpers' = helpers
  BY DEF vars, repository
<1>2. /\ \A p : /\ Readable(p)' = Readable(p) /\ Starters(p)' = Starters(p) /\ Hookers(p)' = Hookers(p)
                 /\ StartFiles(p)' = StartFiles(p) /\ \A q : Names(q, p)' = Names(q, p)
      /\ InstructionFiles' = InstructionFiles /\ AllTargets' = AllTargets
      /\ \A j : Dropped(j)' = Dropped(j)
      /\ \A t, p : Ships(t, p)' = Ships(t, p)
  BY <1>1, SameRepository
<1>3. TypeOK' BY <1>1 DEF IInv, TypeOK
<1>4. Ordered' BY <1>1 DEF IInv, Ordered
<1>5. DirectAreStarted' BY <1>1, <1>2 DEF IInv, DirectAreStarted
<1>6. OwnersSoFar' BY <1>1, <1>2 DEF IInv, OwnersSoFar
<1>7. CommandsAdded' BY <1>1, <1>2 DEF IInv, CommandsAdded, CommandPassed, Passed
<1>8. HooksAdded' BY <1>1, <1>2 DEF IInv, HooksAdded, HookPassed, Passed
<1>9. SiblingsNamed' BY <1>1, <1>2 DEF IInv, SiblingsNamed
<1>10. SiblingsAdded' BY <1>1, <1>2 DEF IInv, SiblingsAdded, SiblingPassed, Passed
<1>11. GivenOnce' BY <1>1, <1>2 DEF IInv, GivenOnce
<1>12. Known' = Known BY <1>1, <1>2 DEF Known
<1>13. SkillsRead' BY <1>1, <1>2, <1>12 DEF IInv, SkillsRead
<1> QED BY <1>3, <1>4, <1>5, <1>6, <1>7, <1>8, <1>9, <1>10, <1>11, <1>13 DEF IInv
-----------------------------------------------------------------------------
(* The invariant of the positions of the loops holds in every state.         *)
THEOREM LoopsSoFar == Spec => []IInv
<1>1. IInv /\ [Next]_vars => IInv'
  <2> SUFFICES ASSUME IInv, [Next]_vars PROVE IInv'
    OBVIOUS
  <2>1. CASE StartCommand BY <2>1, StartCommandKeeps
  <2>2. CASE StartHook BY <2>2, StartHookKeeps
  <2>3. CASE FollowSibling BY <2>3, FollowSiblingKeeps
  <2>4. CASE NextRound BY <2>4, NextRoundKeeps
  <2>5. CASE HooksNext BY <2>5, HooksNextKeeps
  <2>6. CASE SiblingsNext BY <2>6, SiblingsNextKeeps
  <2>7. CASE SkillsNext BY <2>7, SkillsNextKeeps
  <2>8. CASE ShipSkill BY <2>8, ShipSkillKeeps
  <2>9. CASE Finish BY <2>9, FinishKeeps
  <2>10. CASE Done \/ UNCHANGED vars BY <2>10, StutterKeeps DEF Done
  <2> QED BY <2>1, <2>2, <2>3, <2>4, <2>5, <2>6, <2>7, <2>8, <2>9, <2>10 DEF Next
<1> QED BY Initially, <1>1, PTL DEF Spec

(* A script that a target starts is known when the walk is over.             *)
LEMMA StartedIsKnown ==
    ASSUME IInv, stage = "done", NEW p \in Paths, Started(p)
    PROVE  p \in DOMAIN byPath /\ byPath[p].via = None
<1>1. Readable(p) /\ (Starters(p) # {} \/ Hookers(p) # {}) BY DEF Started
<1>2. CASE Starters(p) # {}
  <2>1. PICK t \in DOMAIN targets : \E j \in DOMAIN targets[t].commands : targets[t].commands[j].path = p
    BY <1>2 DEF Starters
  <2> QED BY <1>1, <2>1 DEF IInv, CommandsAdded, CommandPassed
<1>3. CASE Hookers(p) # {}
  <2>1. PICK t \in DOMAIN targets : \E j \in DOMAIN targets[t].hooks : targets[t].hooks[j] = p
    BY <1>3 DEF Hookers
  <2> QED BY <1>1, <2>1 DEF IInv, HooksAdded, HookPassed
<1> QED BY <1>1, <1>2, <1>3

(* The types of the walk's state, for every repository.                      *)
THEOREM TypeCorrect == Spec => []TypeOK
<1>1. IInv => TypeOK BY DEF IInv
<1> QED BY LoopsSoFar, <1>1, PTL

(* Whatever else names or ships it, a started script is the first starter's, *)
(* its lines are read and its findings are not capped.                       *)
THEOREM StartedAreReadInFull == Spec => []StartedScriptsReadInFull
<1>1. IInv => StartedScriptsReadInFull
  <2> SUFFICES ASSUME IInv, stage = "done", NEW p \in Paths, Started(p)
               PROVE  /\ p \in DOMAIN byPath
                      /\ byPath[p].owner \in First(IF Starters(p) # {} THEN Starters(p) ELSE Hookers(p))
                      /\ ~ Capped(p)
                      /\ Shell(p) /\ content[p].size # "large" => LinesRead(p)
    BY DEF StartedScriptsReadInFull
  <2>1. p \in DOMAIN byPath /\ byPath[p].via = None /\ Readable(p) BY StartedIsKnown DEF Started
  <2>2. byPath[p].owner \in (IF Starters(p) # {} THEN Starters(p) ELSE Hookers(p))
    BY <2>1 DEF IInv, DirectAreStarted
  <2>3. \A u \in Starters(p) : byPath[p].owner <= u
    BY <2>1 DEF Starters, IInv, CommandsAdded, CommandPassed
  <2>4. Starters(p) = {} => \A u \in Hookers(p) : byPath[p].owner <= u
    BY <2>1 DEF Hookers, IInv, HooksAdded, HookPassed
  <2>5. byPath[p].owner \in First(IF Starters(p) # {} THEN Starters(p) ELSE Hookers(p))
    BY <2>2, <2>3, <2>4 DEF First
  <2>6. ~ Capped(p) BY <2>1 DEF Capped, IInv, GivenOnce
  <2>7. Shell(p) /\ content[p].size # "large" => LinesRead(p) BY <2>1 DEF LinesRead
  <2> QED BY <2>1, <2>5, <2>6, <2>7
<1> QED BY LoopsSoFar, <1>1, PTL

(* The launchers of a script are the files whose commands start it, those of *)
(* a file beside it the same.                                                *)
THEOREM LaunchersAreTheStarters == Spec => []LaunchersAreStarters
<1>1. IInv => LaunchersAreStarters
  <2> SUFFICES ASSUME IInv, stage = "done"
               PROVE  \A p \in DOMAIN byPath :
                         byPath[p].launchers = StartFiles(IF byPath[p].via = None THEN p ELSE byPath[p].via)
    BY DEF LaunchersAreStarters
  <2>1. ASSUME NEW p \in DOMAIN byPath, byPath[p].via = None PROVE byPath[p].launchers = StartFiles(p)
    <3>1. Readable(p) /\ byPath[p].launchers \subseteq StartFiles(p) BY <2>1 DEF IInv, DirectAreStarted
    <3> SUFFICES ASSUME NEW f \in StartFiles(p) PROVE f \in byPath[p].launchers
      BY <3>1
    <3>2. CASE \E t \in DOMAIN targets : \E j \in DOMAIN targets[t].commands :
                  targets[t].commands[j] = [file |-> f, path |-> p]
      <4>1. PICK t \in DOMAIN targets : \E j \in DOMAIN targets[t].commands :
                  targets[t].commands[j] = [file |-> f, path |-> p]
        BY <3>2
      <4>2. PICK j \in DOMAIN targets[t].commands : targets[t].commands[j] = [file |-> f, path |-> p] BY <4>1
      <4>3. targets[t].commands[j].path = p /\ targets[t].commands[j].file = f BY <4>2
      <4> QED BY <3>1, <4>3 DEF IInv, CommandsAdded, CommandPassed
    <3>3. CASE Hookers(p) # {} /\ f = p
      <4>1. PICK t \in DOMAIN targets : \E j \in DOMAIN targets[t].hooks : targets[t].hooks[j] = p
        BY <3>3 DEF Hookers
      <4> QED BY <3>1, <3>3, <4>1 DEF IInv, HooksAdded, HookPassed
    <3> QED BY <3>2, <3>3 DEF StartFiles
  <2>2. \A p \in DOMAIN byPath : byPath[p].via # None =>
            /\ byPath[p].via \in DOMAIN byPath /\ byPath[byPath[p].via].via = None
            /\ byPath[p].launchers = byPath[byPath[p].via].launchers
    BY DEF IInv, SiblingsNamed
  <2> QED BY <2>1, <2>2
<1> QED BY LoopsSoFar, <1>1, PTL

(* The scripts are what is started, and what a started script names beside   *)
(* it: no chain of names leads further.                                      *)
THEOREM OneStepOnly == Spec => []OneStepFurther
<1>1. IInv => OneStepFurther
  <2> SUFFICES ASSUME IInv, stage = "done", NEW p \in Paths
               PROVE  /\ p \in DOMAIN byPath <=> Readable(p) /\ (Started(p) \/ \E q \in Paths : Names(q, p))
                      /\ p \in DOMAIN byPath /\ byPath[p].via # None => Names(byPath[p].via, p)
    BY DEF OneStepFurther
  <2>1. DOMAIN byPath \subseteq Paths BY DEF IInv, TypeOK
  <2>2. ASSUME p \in DOMAIN byPath PROVE Readable(p) /\ (Started(p) \/ \E q \in Paths : Names(q, p))
    <3>1. Readable(p) BY <2>2 DEF IInv, DirectAreStarted
    <3>2. CASE byPath[p].via = None
      <4>1. Starters(p) # {} \/ Hookers(p) # {} BY <2>2, <3>2 DEF IInv, DirectAreStarted
      <4> QED BY <3>1, <4>1 DEF Started
    <3>3. CASE byPath[p].via # None BY <2>1, <2>2, <3>1, <3>3 DEF IInv, SiblingsNamed
    <3> QED BY <3>2, <3>3
  <2>3. ASSUME Readable(p), NEW q \in Paths, Names(q, p) PROVE p \in DOMAIN byPath
    <3>1. /\ Started(q) /\ content[q].runs
          /\ \E j \in DOMAIN content[q].names : content[q].names[j] = p
      BY <2>3 DEF Names
    <3>2. q \in DOMAIN byPath /\ byPath[q].via = None BY <3>1, StartedIsKnown
    <3>3. PICK i \in 1..direct : order[i] = q BY <3>2 DEF IInv, Ordered, Later
    <3> QED BY <2>3, <3>1, <3>3 DEF IInv, SiblingsAdded, SiblingPassed, Later
  <2>4. p \in DOMAIN byPath /\ byPath[p].via # None => Names(byPath[p].via, p) BY DEF IInv, SiblingsNamed
  <2> QED BY <2>2, <2>3, <2>4, StartedIsKnown
<1> QED BY LoopsSoFar, <1>1, PTL

(* What ships with a skill is given to one target, or is read already.       *)
THEOREM SkillFilesReadOnce == Spec => []EverySkillFileReadOnce
<1>1. IInv => EverySkillFileReadOnce
  <2> SUFFICES ASSUME IInv, stage = "done", NEW k \in DOMAIN AllTargets, NEW p \in Paths,
                      ~ Dropped(k), Ships(AllTargets[k], p)
               PROVE  IF p \in DOMAIN byPath \cup InstructionFiles THEN GivenTo(p) = {}
                      ELSE \E g \in GivenTo(p) : GivenTo(p) = {g}
    BY DEF EverySkillFileReadOnce
  <2>1. p \in Known BY DEF IInv, SkillsRead
  <2>2. GivenOnce BY DEF IInv
  <2>3. CASE p \in DOMAIN byPath \cup InstructionFiles BY <2>2, <2>3 DEF GivenOnce, GivenTo
  <2>4. CASE p \in helpers
    <3>1. \A s \in shipped : s[2] # p BY <2>2, <2>4 DEF GivenOnce
    <3>2. GivenTo(p) = {<<"helper", p>>} BY <2>4, <3>1 DEF GivenTo
    <3> QED BY <2>2, <2>4, <3>2 DEF GivenOnce
  <2>5. CASE \E s \in shipped : s[2] = p
    <3>1. PICK s \in shipped : s[2] = p BY <2>5
    <3>2. p \notin helpers \cup DOMAIN byPath \cup InstructionFiles BY <2>2, <3>1 DEF GivenOnce
    <3>3. \A r \in shipped : r[2] = p => r = s BY <2>2, <3>1 DEF GivenOnce
    <3>4. GivenTo(p) = {s} BY <3>1, <3>2, <3>3 DEF GivenTo
    <3> QED BY <3>2, <3>4
  <2> QED BY <2>1, <2>3, <2>4, <2>5 DEF Known
<1> QED BY LoopsSoFar, <1>1, PTL
=============================================================================
