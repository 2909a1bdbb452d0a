----------------------------- MODULE SeaMemory ------------------------------
(***************************************************************************)
(* The files of long-term memory (src/memory/sea_memory.c), the tool that  *)
(* reads and writes them (src/hands/impl/tool_memory_manage.c), and the    *)
(* agent, which reads two of them into every prompt                        *)
(* (src/brain/sea_agent.c).                                                *)
(*                                                                         *)
(* All readings are taken from one arena that only a reading of MEMORY.md  *)
(* empties; a file that finds no room reads like one that is not there.    *)
(* Files are sequences of pieces, a piece the number of the write it is    *)
(* from, its place in it, and one unit of the arena.                       *)
(***************************************************************************)
EXTENDS Integers, Sequences, FiniteSets, SequencesExt

CONSTANTS
  MemoryRoom,    \* units of the arena
  RecentRoom,    \* units read_recent_notes takes, 64 KB of 128
  MaxWrites,     \* bound: writes
  MaxRestarts,   \* bound: restarts of the process
  TextSizes,     \* how many pieces the tool is asked to write
  TextMax,       \* pieces the buffer of the tool holds, 4095 bytes
  NoteOf,        \* NoteOf[d]: the file of the notes of day d
  MaxDays,       \* bound: days
  MaxSpent       \* bound: units read since the arena was last emptied

ASSUME MemoryAssumption ==
  /\ MemoryRoom \in Nat /\ RecentRoom \in Nat /\ MaxWrites \in Nat
  /\ TextSizes \subseteq Nat /\ TextMax \in Nat
  /\ MaxRestarts \in Nat /\ MaxDays \in Nat \ {0} /\ MaxSpent \in Nat
  /\ DOMAIN NoteOf = 1..MaxDays
  /\ \A d \in 1..MaxDays : NoteOf[d] \notin {"SOUL.md", "USER.md", "MEMORY.md"}

VARIABLES
  files,     \* what is on the disk
  date,      \* the day
  left,      \* what is left of SeaMemory.arena
  writing,   \* the write in progress: its file, how much was asked, the pieces that
             \* have not been put yet, and whether the disk has taken all others
  turn,      \* what the prompt of the last turn held of SOUL.md; its "room" is
             \* history: whether it and all that was read before find room together
  fates,     \* history: what became of the writes of MEMORY.md since an overwriting
             \* began last: their callers were told, and the disk took all or refused
             \* a part; or the process was lost before
  spent,     \* history: units read since the arena was last emptied
  writes,    \* history: writes so far
  restarts   \* history: restarts so far

diskVars == <<files, date, writing, fates, writes, restarts>>
memoryVars == <<diskVars, left, turn, spent>>

Bootstrap == {"SOUL.md", "USER.md", "MEMORY.md"}
Notes == {NoteOf[d] : d \in 1..MaxDays}
Missing == <<<<-1, -1>>>>
Header == <<0, 1>>   \* the text a file is made with, and the headline of a note
Default == <<Header>>
NoWrite == [file |-> "none", asked |-> 0, pieces |-> <<>>, taken |-> TRUE]
NoTurn == [soul |-> "none", room |-> TRUE]

MemoryInit ==
  /\ files = [f \in Bootstrap \union Notes |-> IF f \in Bootstrap THEN Default ELSE Missing]
  /\ date = 1 /\ left = MemoryRoom /\ writing = NoWrite /\ turn = NoTurn
  /\ fates = {[write |-> 0, asked |-> 1, fate |-> "told"]} /\ spent = 0 /\ writes = 0 /\ restarts = 0

There(file) == files[file] # Missing
AtRest == writing.file = "none"

-----------------------------------------------------------------------------
(* Reading.                                                                *)

Units(file) == IF There(file) THEN Len(files[file]) ELSE 0

(* read_file_to_arena with room units: NULL for a file that is not there,  *)
(* is empty or finds no room.  A unit more for the NUL is left out.        *)
Readable(file, room) == Units(file) > 0 /\ Units(file) <= room
Read(file, room) == IF Readable(file, room) THEN Units(file) ELSE 0

Takes(units) ==
  /\ spent + units <= MaxSpent
  /\ left' = left - units /\ spent' = spent + units
  /\ UNCHANGED diskVars

(* Mutant: a reading of MEMORY.md leaves the arena as full as it was. *)
ReadMemoryOnTop ==
  /\ AtRest
  /\ left' = left - Read("MEMORY.md", left)
  /\ spent' = Read("MEMORY.md", left)
  /\ UNCHANGED <<diskVars, turn>>

(* sea_memory_read, the one that empties the arena. *)
ReadMemory ==
  /\ AtRest
  /\ left' = MemoryRoom - Read("MEMORY.md", MemoryRoom)
  /\ spent' = Read("MEMORY.md", MemoryRoom)
  /\ UNCHANGED <<diskVars, turn>>

(* sea_memory_read_bootstrap and sea_memory_read_daily, by the tool. *)
ReadFile(file) ==
  /\ AtRest
  /\ Takes(Read(file, left))
  /\ UNCHANGED turn

(* sea_memory_read_recent_notes: a block at once, whatever is in it. *)
ReadRecent ==
  /\ AtRest /\ left >= RecentRoom
  /\ Takes(RecentRoom)
  /\ UNCHANGED turn

(* A turn of the agent reads SOUL.md, then USER.md. *)
Turn ==
  /\ AtRest
  /\ LET soul == Read("SOUL.md", left)
         user == Read("USER.md", left - soul)
     IN  /\ Takes(soul + user)
         /\ turn' = [soul |-> CASE soul > 0 -> "there" [] Units("SOUL.md") = 0 -> "none" [] OTHER -> "lost",
                      room |-> spent + Units("SOUL.md") <= MemoryRoom]

-----------------------------------------------------------------------------
(* Writing.                                                                *)

(* The tool copies what it is asked to write into a buffer, and what is    *)
(* longer is cut off without a word.                                       *)
Held(asked) == IF asked <= TextMax THEN asked ELSE TextMax

(* What will be written: a note of the day that is not there before begins *)
(* with a headline.                                                        *)
Pieces(file, asked) ==
  (IF file \in Notes /\ ~There(file) THEN <<Header>> ELSE <<>>)
    \o [k \in 1..Held(asked) |-> <<writes + 1, k>>]

(* Mutant: to append is to write. *)
WriteBeginsAnew(file, mode, asked) ==
  /\ AtRest /\ writes < MaxWrites
  /\ writes' = writes + 1
  /\ writing' = [file |-> file, asked |-> asked, pieces |-> Pieces(file, asked), taken |-> TRUE]
  /\ files' = [files EXCEPT ![file] = <<>>]
  /\ fates' = IF file = "MEMORY.md" /\ mode = "w" THEN {} ELSE fates
  /\ UNCHANGED <<date, left, turn, spent, restarts>>

(* fopen: "w" empties the file, "a" does not; either makes one.            *)
WriteBegins(file, mode, asked) ==
  /\ AtRest /\ writes < MaxWrites
  /\ writes' = writes + 1
  /\ writing' = [file |-> file, asked |-> asked, pieces |-> Pieces(file, asked), taken |-> TRUE]
  /\ files' = IF mode = "w" \/ ~There(file) THEN [files EXCEPT ![file] = <<>>] ELSE files
  /\ fates' = IF file = "MEMORY.md" /\ mode = "w" THEN {} ELSE fates
  /\ UNCHANGED <<date, left, turn, spent, restarts>>

WriteMemory == \E asked \in TextSizes : WriteBegins("MEMORY.md", "w", asked)
AppendMemory == \E asked \in TextSizes : WriteBegins("MEMORY.md", "a", asked)
AppendDaily == \E asked \in TextSizes : WriteBegins(NoteOf[date], "a", asked)

(* fputs, and the flush in fclose: a piece is in the file, or the disk is  *)
(* full; no result is looked at.                                           *)
Puts(kept) ==
  /\ ~AtRest /\ writing.pieces # <<>>
  /\ files' = IF kept THEN [files EXCEPT ![writing.file] = Append(@, Head(writing.pieces))]
              ELSE files
  /\ writing' = [writing EXCEPT !.pieces = Tail(@), !.taken = @ /\ kept]
  /\ UNCHANGED <<date, left, turn, fates, spent, writes, restarts>>

Fate(fate) ==
  IF writing.file = "MEMORY.md"
  THEN {[write |-> writes, asked |-> writing.asked, fate |-> fate]} ELSE {}

(* SEA_OK, whatever the disk has taken, and the tool says it is there.     *)
WriteEnds ==
  /\ ~AtRest /\ writing.pieces = <<>>
  /\ writing' = NoWrite
  /\ fates' = fates \union Fate(IF writing.taken THEN "told" ELSE "refused")
  /\ UNCHANGED <<files, date, left, turn, spent, writes, restarts>>

(* The process is lost with what it has not put yet, and starts again:     *)
(* sea_memory_create_defaults makes only what is not there, and an empty   *)
(* file is there.                                                          *)
Restart ==
  /\ restarts < MaxRestarts
  /\ restarts' = restarts + 1
  /\ left' = MemoryRoom /\ spent' = 0 /\ writing' = NoWrite /\ turn' = NoTurn
  /\ files' = [f \in DOMAIN files |->
                IF f \in Bootstrap /\ files[f] = Missing THEN Default ELSE files[f]]
  /\ fates' = fates \union Fate("cut")
  /\ UNCHANGED <<date, writes>>

(* A user may take a file away or empty it. *)
UserRemoves(file) ==
  /\ AtRest /\ file # "MEMORY.md"
  /\ \E content \in {Missing, <<>>} : files' = [files EXCEPT ![file] = content]
  /\ UNCHANGED <<date, left, writing, turn, fates, spent, writes, restarts>>

NextDay ==
  /\ AtRest /\ date < MaxDays
  /\ date' = date + 1
  /\ UNCHANGED <<files, left, writing, turn, fates, spent, writes, restarts>>

(* tool_memory_manage. *)
MemoryTool ==
  \/ ReadMemory \/ \E file \in Bootstrap \union Notes : ReadFile(file)
  \/ WriteMemory \/ AppendMemory \/ AppendDaily

MemoryNext ==
  \/ MemoryTool \/ ReadRecent \/ Turn
  \/ \E kept \in BOOLEAN : Puts(kept)
  \/ WriteEnds
  \/ Restart \/ \E file \in Bootstrap : UserRemoves(file)
  \/ NextDay

MemorySpec == MemoryInit /\ [][MemoryNext]_memoryVars

-----------------------------------------------------------------------------
Memory == files["MEMORY.md"]
Precedes(p, q) == p[1] < q[1] \/ (p[1] = q[1] /\ p[2] < q[2])
Known == {w.write : w \in fates} \union (IF writing.file = "MEMORY.md" THEN {writes} ELSE {})

ToldIsThere ==
  \A w \in fates : w.fate = "told" =>
    \A k \in 1..Held(w.asked) : \E i \in DOMAIN Memory : Memory[i] = <<w.write, k>>
OnceInOrder == \A i, j \in DOMAIN Memory : i < j => Precedes(Memory[i], Memory[j])
NothingElse == \A i \in DOMAIN Memory : Memory[i][1] \in Known
HeadlinesFirst == \A n \in Notes : \A i \in DOMAIN files[n] : files[n][i] = Header => i = 1

(* Since an overwriting of MEMORY.md began last, which takes the text      *)
(* before it away at once, each write whose caller was told it is there    *)
(* and whose every piece the disk took is there, as far as the tool's      *)
(* buffer held it, through any later write and any end of the process;     *)
(* what was cut off or refused leaves no more than pieces in their order.  *)
(* Nothing is there twice, out of order or from before.  The headline of a *)
(* note is only ever its beginning.                                        *)
MemoryKept == ToldIsThere /\ OnceInOrder /\ NothingElse /\ HeadlinesFirst

(* A turn goes without the SOUL.md that is there only when everything that *)
(* was read since MEMORY.md was read last leaves no room for it.           *)
SoulWhileRoom == turn.soul = "lost" => ~turn.room
=============================================================================
