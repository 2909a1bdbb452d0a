------------------------------- MODULE SeaJson -------------------------------
(***************************************************************************)
(* The JSON parser (src/senses/sea_json.c), token by token.  What          *)
(* parse_string, parse_number and parse_literal take is one token here, a  *)
(* text at which they fail is "wrong" (a number may begin with zeros and   *)
(* end with its point), and the white space that is skipped around tokens  *)
(* is left out.                                                            *)
(*                                                                         *)
(* The recursion of parse_value, parse_array and parse_object is a stack   *)
(* of the containers begun.  The parser is given its tokens one by one: a  *)
(* behaviour is about every text that begins with the tokens read so far.  *)
(***************************************************************************)
EXTENDS Integers, Sequences, FiniteSets, SequencesExt

CONSTANTS
  Strings,     \* string tokens
  Scalars,     \* numbers, true, false and null
  MaxNesting,  \* SEA_MAX_JSON_DEPTH
  FirstCap,    \* elements that a container has room for at first
  JsonRoom,    \* elements that the arena has room for
  MaxElements  \* bound: elements of one container

EndOfText == "eof"
Marks == {"[", "]", "{", "}", ",", ":", "wrong", EndOfText}

(* Strings, scalars and marks are told apart by how they begin.            *)
ASSUME JsonAssumption ==
  /\ Strings \intersect Scalars = {} /\ (Strings \union Scalars) \intersect Marks = {}
  /\ MaxNesting \in Nat /\ FirstCap \in Nat \ {0}
  /\ JsonRoom \in Nat /\ MaxElements \in Nat \ {0}

VARIABLES
  tokens,   \* history: the tokens read
  wants,    \* what comes next: a value; a value, or the end of a container
            \* just begun ("first"); a key; a colon; what follows an element
            \* ("more"); the end of the text; nothing after "ok", "invalid"
            \* and "full"
  stack,    \* the containers begun, with their elements and their room
  parsed,   \* the value that was read
  blocks    \* elements allocated in the arena, a pair of an object being one

jsonVars == <<tokens, wants, stack, parsed, blocks>>

(* SeaJsonValue: a token, or a container with its keys and its elements. *)
Node(type, text, keys, items) == [type |-> type, text |-> text, keys |-> keys, items |-> items]
NoNode == Node("none", "", <<>>, <<>>)
Leaf(token) == Node(IF token \in Strings THEN "string" ELSE "scalar", token, <<>>, <<>>)

JsonInit ==
  tokens = <<>> /\ wants = "value" /\ stack = <<>> /\ parsed = NoNode /\ blocks = 0

Opener(type) == IF type = "array" THEN "[" ELSE "{"
Ender(type) == IF type = "array" THEN "]" ELSE "}"

Top == Last(stack)
InObject == stack # <<>> /\ Last(stack).type = "object"
WantsValue == wants = "value" \/ (wants = "first" /\ ~InObject)
WantsKey == wants = "key" \/ (wants = "first" /\ InObject)

Reads(token) == tokens' = Append(tokens, token)

(* Before an element begins, a container without room moves to a block of  *)
(* twice the size; the old one is not given back.                          *)
Price ==
  IF stack # <<>> /\ wants = (IF InObject THEN "key" ELSE "value") /\ Len(Top.items) = Top.cap
  THEN 2 * Top.cap ELSE 0

Grown == IF Price = 0 THEN stack ELSE Append(Front(stack), [Top EXCEPT !.cap = Price])

(* A value is complete: it is an element of the container around it, the   *)
(* last of frames, or the whole text.                                      *)
Complete(value, frames) ==
  IF frames = <<>>
  THEN parsed' = value /\ stack' = <<>> /\ wants' = "end"
  ELSE /\ stack' = Append(Front(frames), [Last(frames) EXCEPT !.items = Append(@, value)])
       /\ wants' = "more" /\ UNCHANGED parsed

-----------------------------------------------------------------------------
(* parse_value, where it begins and ends with one token. *)
Scalar(token) ==
  /\ WantsValue /\ blocks + Price <= JsonRoom
  /\ Complete(Leaf(token), Grown)
  /\ blocks' = blocks + Price
  /\ Reads(token)

(* parse_array and parse_object begin. *)
Open(type) ==
  /\ WantsValue /\ Len(stack) < MaxNesting /\ blocks + Price + FirstCap <= JsonRoom
  /\ stack' = Append(Grown, [type |-> type, keys |-> <<>>, items |-> <<>>, cap |-> FirstCap])
  /\ blocks' = blocks + Price + FirstCap
  /\ wants' = "first"
  /\ Reads(Opener(type)) /\ UNCHANGED parsed

(* Mutant: a comma may be the last thing in a container. *)
CloseAfterComma ==
  /\ wants \in {"first", "more", "key"} /\ stack # <<>>
  /\ Complete(Node(Top.type, "", Top.keys, Top.items), Front(stack))
  /\ Reads(Ender(Top.type)) /\ UNCHANGED blocks

(* They end: at once, or after an element. *)
Close ==
  /\ wants \in {"first", "more"} /\ stack # <<>>
  /\ Complete(Node(Top.type, "", Top.keys, Top.items), Front(stack))
  /\ Reads(Ender(Top.type)) /\ UNCHANGED blocks

(* parse_object: the key of a pair. *)
Key(token) ==
  /\ WantsKey /\ blocks + Price <= JsonRoom
  /\ stack' = Append(Front(Grown), [Last(Grown) EXCEPT !.keys = Append(@, token)])
  /\ blocks' = blocks + Price
  /\ wants' = "colon"
  /\ Reads(token) /\ UNCHANGED parsed

Colon ==
  /\ wants = "colon" /\ wants' = "value"
  /\ Reads(":") /\ UNCHANGED <<stack, parsed, blocks>>

Comma ==
  /\ wants = "more" /\ Len(Top.items) < MaxElements
  /\ wants' = IF InObject THEN "key" ELSE "value"
  /\ Reads(",") /\ UNCHANGED <<stack, parsed, blocks>>

(* sea_json_parse: nothing may follow the value. *)
TextEnds ==
  /\ wants = "end" /\ wants' = "ok"
  /\ Reads(EndOfText) /\ UNCHANGED <<stack, parsed, blocks>>

Running == wants \notin {"ok", "invalid", "full"}

Expected ==
  (IF WantsValue THEN Strings \union Scalars \union {"[", "{"} ELSE {})
  \union (IF WantsKey THEN Strings ELSE {})
  \union (IF wants \in {"first", "more"} THEN {Ender(Top.type)} ELSE {})
  \union (CASE wants = "colon" -> {":"} [] wants = "more" -> {","}
            [] wants = "end" -> {EndOfText} [] OTHER -> {})

(* Any other token, or a container inside too many others. *)
Invalid(token) ==
  /\ Running /\ blocks + Price <= JsonRoom
  /\ token \notin Expected \/ (token \in {"[", "{"} /\ Len(stack) >= MaxNesting)
  /\ wants' = "invalid"
  /\ Reads(token) /\ UNCHANGED <<stack, parsed, blocks>>

(* The arena has no room for the larger block, whatever comes next, or for *)
(* the container that begins.                                              *)
NoRoom(token) ==
  /\ Running
  /\ \/ blocks + Price > JsonRoom
     \/ /\ WantsValue /\ token \in {"[", "{"} /\ Len(stack) < MaxNesting
        /\ blocks + Price + FirstCap > JsonRoom
  /\ wants' = "full"
  /\ Reads(token) /\ UNCHANGED <<stack, parsed, blocks>>

Tokens == Strings \union Scalars \union Marks

JsonNext ==
  \/ \E token \in Strings \union Scalars : Scalar(token)
  \/ \E token \in Strings : Key(token)
  \/ Open("array") \/ Open("object")
  \/ Close \/ Colon \/ Comma \/ TextEnds
  \/ \E token \in Tokens : Invalid(token) \/ NoRoom(token)

JsonSpec == JsonInit /\ [][JsonNext]_jsonVars

(* sea_json_get: the first of the keys that are the same. *)
Get(node, key) ==
  LET places == {i \in DOMAIN node.keys : node.keys[i] = key}
  IN IF places = {} THEN NoNode
     ELSE node.items[CHOOSE i \in places : \A k \in places : i <= k]

-----------------------------------------------------------------------------
(* The reference: the texts of JSON of up to n containers inside each      *)
(* other, with the value of each, the arena it needs and what each key of  *)
(* it names.                                                               *)

(* The blocks of a container of n elements: the first, and each twice the  *)
(* one before, up to the first with room for n.  Their sum is twice the    *)
(* last but for the first.                                                 *)
BlocksOf(n) ==
  LET block[k \in 0..n] == IF k = 0 THEN FirstCap ELSE 2 * block[k - 1]
      last == CHOOSE k \in 0..n : block[k] >= n /\ \A j \in 0..k - 1 : block[j] < n
  IN 2 * block[last] - FirstCap

(* What stands before the i-th element.                                    *)
Before(type, keys, i) ==
  (IF i = 1 THEN <<>> ELSE <<",">>) \o (IF type = "object" THEN <<keys[i], ":">> ELSE <<>>)

(* A key that was there before keeps its value.                            *)
Named(named, key, value) ==
  [k \in DOMAIN named \union {key} |-> IF k \in DOMAIN named THEN named[k] ELSE value]

(* A container that is filled with parts: its text but for the end, the    *)
(* arena they need, and what its keys name.                                *)
Filled(type, keys, parts) ==
  LET upto[k \in 0..Len(parts)] ==
        IF k = 0 THEN [text |-> <<Opener(type)>>, needs |-> 0, named |-> <<>>]
        ELSE [text  |-> (upto[k - 1].text \o Before(type, keys, k)) \o parts[k].text,
              needs |-> upto[k - 1].needs + parts[k].needs,
              named |-> IF type = "object" THEN Named(upto[k - 1].named, keys[k], parts[k].value)
                        ELSE upto[k - 1].named]
  IN upto[Len(parts)]

ContainerText(type, keys, parts) ==
  LET filled == Filled(type, keys, parts) IN
  [text  |-> Append(filled.text, Ender(type)),
   value |-> Node(type, "", keys, [i \in DOMAIN parts |-> parts[i].value]),
   needs |-> BlocksOf(Len(parts)) + filled.needs,
   named |-> filled.named]

LeafTexts ==
  {[text |-> <<t>>, value |-> Leaf(t), needs |-> 0, named |-> <<>>] : t \in Strings \union Scalars}

ContainerTexts(texts) ==
  UNION {{ContainerText("array", <<>>, parts) : parts \in [1..n -> texts]}
         \union {ContainerText("object", keys, parts) :
                   keys \in [1..n -> Strings], parts \in [1..n -> texts]} : n \in 0..MaxElements}

TextsUpTo[n \in 0..MaxNesting] ==
  IF n = 0 THEN LeafTexts ELSE LeafTexts \union ContainerTexts(TextsUpTo[n - 1])

Texts == {t \in TextsUpTo[MaxNesting] : t.needs <= JsonRoom}

Beginnings == UNION {{SubSeq(t.text, 1, i) : i \in 0..Len(t.text)} : t \in Texts}

(* A text is accepted exactly if it is JSON that is not nested too deeply  *)
(* and fits into the arena, for the value it has; a key that is there      *)
(* twice names the first of its values.  A parse fails at no token that    *)
(* could still have become such a text, and allocates neither more nor     *)
(* less than the value needs.                                              *)
JsonIsRead ==
  /\ wants = "ok" =>
       \E t \in Texts :
         /\ t.text = Front(tokens) /\ t.value = parsed /\ t.needs = blocks
         /\ \A key \in Strings :
              Get(parsed, key) = IF key \in DOMAIN t.named THEN t.named[key] ELSE NoNode
  /\ wants \in {"invalid", "full"} =>
       IF Last(tokens) = EndOfText THEN Front(tokens) \notin {t.text : t \in Texts}
       ELSE tokens \notin Beginnings
=============================================================================
