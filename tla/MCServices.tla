----------------------------- MODULE MCServices -----------------------------
(* One run for the parts around the agent: the mesh, the delegation to a   *)
(* peer, the bridge to Agent Zero, its proxy, the index of facts, the      *)
(* files of memory, the start of the program, the usage tracker, the       *)
(* skills and the JSON parser share no state, so a behaviour is about one  *)
(* of them, chosen at the start, and the others stay as they begin.        *)
EXTENDS SeaMesh, SeaA2A, SeaZero, SeaProxy, SeaRecall, SeaMemory, MCSeaStart, SeaUsage,
        SeaSkill, SeaJson

VARIABLE subject

MCOffers == [c \in Crews |-> IF c = "a" THEN <<"t", "u">> ELSE <<"u">>]
MCWordsOf == [c \in Contents |-> CASE c = "name" -> {"name"}
                                   [] c = "rust" -> {"code", "rust"}
                                   [] OTHER -> {"code"}]
MCQuestions == {{}, {"code", "rust"}}
MCLabels == {[category |-> "user", importance |-> 0], [category |-> "fact", importance |-> 9]}
MCLosable == {{"content", "keywords"}, {"accessed"}}
MCDecay == <<100, 88, 78>>
MCNoteOf == <<"monday.md", "tuesday.md">>

Match(at, length) == [at |-> at, length |-> length]
MCFindings == {<<>>, <<Match(2, 2), Match(1, 2)>>, <<Match(1, 2), Match(1, 3)>>,
               <<Match(2, 1), Match(1, 1), Match(3, 1)>>}

(* A skill in order, one whose name is set twice, one of no size, one too  *)
(* large, one that does not close, and one whose name is in too long a line.*)
Line(key, value) == [key |-> key, value |-> value, fits |-> TRUE]
SkillFile(size, closed, front) ==
  [units |-> size, closed |-> closed, front |-> front, body |-> 4096]
MCSkillFiles ==
  {SkillFile(1, TRUE, <<Line("name", "n"), Line("trigger", "/t")>>),
   SkillFile(2, TRUE, <<Line("name", "p"), Line("name", "n"), Line("trigger", "/t")>>),
   SkillFile(0, TRUE, <<Line("name", "n")>>),
   SkillFile(5, TRUE, <<Line("name", "p")>>),
   SkillFile(1, FALSE, <<Line("name", "p")>>),
   SkillFile(2, TRUE, <<[key |-> "name", value |-> "p", fits |-> FALSE]>>)}

remoteVars == <<meshVars, a2aVars, zeroVars, proxyVars>>
storeVars == <<recallVars, memoryVars, usageVars>>
programVars == <<startVars, skillVars, jsonVars>>

ServicesInit ==
  /\ subject \in {"mesh", "a2a", "zero", "proxy", "recall", "memory", "usage",
                 "start", "skills", "json"}
  /\ MeshInit /\ A2AInit /\ ZeroInit /\ ProxyInit /\ RecallInit /\ MemoryInit /\ UsageInit
  /\ StartInit /\ SkillInit /\ JsonInit
  /\ subject # "skills" => folder = <<>>

RemoteNext ==
  \/ subject = "mesh" /\ MeshNext /\ UNCHANGED <<a2aVars, zeroVars, proxyVars>>
  \/ subject = "a2a" /\ A2ANext /\ UNCHANGED <<meshVars, zeroVars, proxyVars>>
  \/ subject = "zero" /\ ZeroNext /\ UNCHANGED <<meshVars, a2aVars, proxyVars>>
  \/ subject = "proxy" /\ ProxyNext /\ UNCHANGED <<meshVars, a2aVars, zeroVars>>

StoreNext ==
  \/ subject = "recall" /\ RecallNext /\ UNCHANGED <<memoryVars, usageVars>>
  \/ subject = "memory" /\ MemoryNext /\ UNCHANGED <<recallVars, usageVars>>
  \/ subject = "usage" /\ UsageNext /\ UNCHANGED <<recallVars, memoryVars>>

ProgramNext ==
  \/ subject = "start" /\ StartNext /\ UNCHANGED <<skillVars, jsonVars>>
  \/ subject = "skills" /\ SkillNext /\ UNCHANGED <<startVars, jsonVars>>
  \/ subject = "json" /\ JsonNext /\ UNCHANGED <<startVars, skillVars>>

ServicesNext ==
  /\ \/ RemoteNext /\ UNCHANGED <<storeVars, programVars>>
     \/ StoreNext /\ UNCHANGED <<remoteVars, programVars>>
     \/ ProgramNext /\ UNCHANGED <<remoteVars, storeVars>>
  /\ UNCHANGED subject

ServicesSpec ==
  ServicesInit /\ [][ServicesNext]_<<subject, remoteVars, storeVars, programVars>>
=============================================================================
