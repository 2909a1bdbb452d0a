------------------------------ MODULE SeaSkill ------------------------------
(***************************************************************************)
(* The skills (src/skills/sea_skill.c): a directory of files with a front  *)
(* matter of YAML, read one by one when the program starts into a table    *)
(* that nothing leaves, and into an arena that nothing is given back to.   *)
(* After that skills are registered, enabled and disabled, found by name   *)
(* or by trigger, and made into a prompt.  Only the loading has a caller   *)
(* in the program; what is modelled of the rest is any sequence of calls.  *)
(***************************************************************************)
EXTENDS Integers, Sequences, FiniteSets, SequencesExt

CONSTANTS
  SkillNames, Triggers,
  SkillFiles,    \* files that the directory may hold
  MaxSkills,     \* SEA_MAX_SKILLS
  LargestFile,   \* units of the largest file that is read: 64 KB
  SkillRoom,     \* units of the registry's arena
  BodyMax,       \* SEA_SKILL_BODY_MAX
  Inputs,        \* lengths of what the user says to a skill
  PromptRoom,    \* characters of the arena for a prompt
  MaxFiles,      \* bound: files in the directory
  MaxChanges     \* bound: calls that register, enable or disable

NoValue == ""

(* A line of a front matter is what it sets, or "other": a line that only  *)
(* begins with the word "name" sets the name.  One that is too long for    *)
(* the copy of a line says nothing.                                        *)
Lines == [key : {"name"}, value : SkillNames \union {NoValue}, fits : BOOLEAN]
         \union [key : {"trigger"}, value : Triggers \union {NoValue}, fits : BOOLEAN]
         \union [key : {"other"}, value : {NoValue}, fits : BOOLEAN]

ASSUME SkillAssumption ==
  /\ NoValue \notin SkillNames \union Triggers
  /\ {MaxSkills, LargestFile, SkillRoom, PromptRoom, MaxFiles, MaxChanges} \subseteq Nat
  /\ BodyMax \in Nat \ {0} /\ Inputs \subseteq Nat
  /\ SkillFiles \subseteq [units : Nat, closed : BOOLEAN, front : Seq(Lines), body : Nat]

VARIABLES
  folder,    \* the files, in the order of readdir
  fileAt,    \* the next of them
  skills,    \* SeaSkillRegistry.skills
  taken,     \* units of the arena in use
  registered, \* history: the skills that were registered
  flags,     \* history: for every name what sea_skill_enable last set
  changes,   \* calls so far
  skillPrompt \* the last prompt: the skill, its input, and what there is of both

skillVars == <<folder, fileAt, skills, taken, registered, flags, changes, skillPrompt>>

NoPrompt == [body |-> 0, input |-> 0, length |-> 0]

SkillInit ==
  /\ folder \in SeqOf(SkillFiles, MaxFiles)
  /\ fileAt = 1 /\ skills = <<>> /\ taken = 0 /\ registered = <<>>
  /\ flags = [n \in SkillNames |-> TRUE] /\ changes = 0 /\ skillPrompt = NoPrompt

Smaller(a, b) == IF a < b THEN a ELSE b
Full == Len(skills) >= MaxSkills

(* sea_skill_parse.  The last line that sets a field has it. *)
Set(file, key) ==
  LET i == SelectLastInSeq(file.front, LAMBDA line : line.key = key /\ line.fits)
  IN IF i = 0 THEN NoValue ELSE file.front[i].value

ParsedSkill(file) ==
  [name |-> Set(file, "name"), trigger |-> Set(file, "trigger"),
   body |-> Smaller(file.body, BodyMax - 1), enabled |-> TRUE]

Parses(file) == file.closed /\ Set(file, "name") # NoValue

(* sea_skill_load_file: a table that is full, a file of no fit size and an *)
(* arena without room end it before the parser; what the parser does not   *)
(* take stays in the arena.                                                *)
IsRead(file) == ~Full /\ file.units \in 1..LargestFile /\ taken + file.units <= SkillRoom

(* Mutant: a file that is no skill ends the loading. *)
LoadNextUntilFailure ==
  /\ fileAt <= Len(folder)
  /\ LET file == folder[fileAt] IN
     /\ fileAt' = IF IsRead(file) /\ ~Parses(file) THEN Len(folder) + 1 ELSE fileAt + 1
     /\ taken' = IF IsRead(file) THEN taken + file.units ELSE taken
     /\ skills' = IF IsRead(file) /\ Parses(file) THEN Append(skills, ParsedSkill(file)) ELSE skills
  /\ UNCHANGED <<folder, registered, flags, changes, skillPrompt>>

(* sea_skill_load_all, one file: whatever becomes of it, the next follows. *)
LoadNext ==
  /\ fileAt <= Len(folder)
  /\ fileAt' = fileAt + 1
  /\ LET file == folder[fileAt] IN
     /\ taken' = IF IsRead(file) THEN taken + file.units ELSE taken
     /\ skills' = IF IsRead(file) /\ Parses(file) THEN Append(skills, ParsedSkill(file)) ELSE skills
  /\ UNCHANGED <<folder, registered, flags, changes, skillPrompt>>

AllLoaded == fileAt > Len(folder)

(* sea_skill_register *)
RegisterSkill(name, trigger) ==
  LET skill == [name |-> name, trigger |-> trigger, body |-> 1, enabled |-> TRUE] IN
  /\ AllLoaded /\ changes < MaxChanges
  /\ skills' = IF Full THEN skills ELSE Append(skills, skill)
  /\ registered' = Append(registered, skill)
  /\ changes' = changes + 1
  /\ UNCHANGED <<folder, fileAt, taken, flags, skillPrompt>>

(* sea_skill_find: the first of a name, 0 if there is none. *)
Find(name) == SelectInSeq(skills, LAMBDA s : s.name = name)

(* sea_skill_find_by_trigger: the first of those that are enabled. *)
FindByTrigger(trigger) ==
  SelectInSeq(skills, LAMBDA s : s.trigger # NoValue /\ s.trigger = trigger /\ s.enabled)

(* sea_skill_enable: the first of a name, if there is one. *)
Enable(name, enabled) ==
  /\ AllLoaded /\ changes < MaxChanges /\ Find(name) # 0
  /\ skills' = [skills EXCEPT ![Find(name)].enabled = enabled]
  /\ flags' = [flags EXCEPT ![name] = enabled]
  /\ changes' = changes + 1
  /\ UNCHANGED <<folder, fileAt, taken, registered, skillPrompt>>

(* sea_skill_build_prompt, for the skill a trigger finds: the body, two    *)
(* lines between, the input.  64 characters are for what is between.       *)
BuildPrompt(trigger, input) ==
  LET body == skills[FindByTrigger(trigger)].body
      total == body + input + 64
      text == body + (IF input > 0 THEN 14 + input ELSE 0)
  IN /\ AllLoaded /\ FindByTrigger(trigger) # 0
     /\ skillPrompt' = IF total > PromptRoom THEN NoPrompt
                  ELSE [body |-> body, input |-> input, length |-> Smaller(text, total - 1)]
     /\ UNCHANGED <<folder, fileAt, skills, taken, registered, flags, changes>>

SkillNext ==
  \/ LoadNext
  \/ \E name \in SkillNames, trigger \in Triggers \union {NoValue} : RegisterSkill(name, trigger)
  \/ \E name \in SkillNames, enabled \in BOOLEAN : Enable(name, enabled)
  \/ \E trigger \in Triggers, input \in Inputs : BuildPrompt(trigger, input)

SkillSpec == SkillInit /\ [][SkillNext]_skillVars

-----------------------------------------------------------------------------
(* What was offered so far, in its order: the files that are read by now,  *)
(* with the units they need, and what was registered.                      *)
Offerings == 1..fileAt - 1 + Len(registered)

Offered(i) ==
  IF i < fileAt
  THEN [fit |-> Parses(folder[i]) /\ folder[i].units \in 1..LargestFile,
        skill |-> ParsedSkill(folder[i]), units |-> folder[i].units]
  ELSE [fit |-> TRUE, skill |-> registered[i - fileAt + 1], units |-> 0]

(* The ways to take len of them, in their order. *)
Selections(len) == {c \in [1..len -> Offerings] : \A i, k \in 1..len : i < k => c[i] < c[k]}

(* Every skill there was, in a file or registered, is in the table in the  *)
(* order they came, unless the table is full or the arena, of which every  *)
(* file that was read keeps its part, has no room for it.                  *)
NoneIsMissed ==
  \E choice \in Selections(Len(skills)) :
    /\ \A i \in DOMAIN skills :
         /\ Offered(choice[i]).fit
         /\ [skills[i] EXCEPT !.enabled = TRUE] = Offered(choice[i]).skill
    /\ \A i \in Offerings \ Range(choice) :
         Offered(i).fit => Len(skills) = MaxSkills \/ taken + Offered(i).units > SkillRoom

(* A name is as enabled as it was last set; but only the first skill of it *)
(* is, and a trigger still finds a later one of a name that was disabled.  *)
DisabledIsHidden ==
  /\ \A name \in SkillNames :
       Find(name) # 0 => skills[Find(name)].enabled = flags[name]
  /\ \A trigger \in Triggers :
       LET found == FindByTrigger(trigger)
       IN found # 0 => flags[skills[found].name] \/ Find(skills[found].name) < found

(* A prompt has all of the skill and of what the user said, or is none. *)
PromptWhole ==
  skillPrompt # NoPrompt => skillPrompt.length >= skillPrompt.body + skillPrompt.input

(* The skills are as they were filed, registered and set. *)
SkillsAsFiled == NoneIsMissed /\ DisabledIsHidden /\ PromptWhole
=============================================================================
