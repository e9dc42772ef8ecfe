-------------------------------- MODULE Json --------------------------------
(***************************************************************************)
(* utils/cJSON.c: what the parser makes of a text, how a tree is printed,  *)
(* and the look-up of a member.  A text is a sequence of lexemes, each a   *)
(* kind and what it says: a punctuation mark, a literal, a whole string or *)
(* number, or a run of white space.  A node has its type, the name it has  *)
(* in its object, the string or number it holds and its children.          *)
(***************************************************************************)
EXTENDS Naturals, Sequences, SequencesExt

CONSTANTS
  lower,    (* tolower, letter by letter: [the names -> the names]         *)
  rounded   (* what print_number makes of a number: no more than 6 places  *)

NoName == "no name"
NoValue == ""

Lexeme(kind, says) == <<kind, says>>
Mark(kind) == Lexeme(kind, NoValue)
White == Mark("white")

Kind(text, at) == IF at > Len(text) THEN "end" ELSE text[at][1]
Says(text, at) == text[at][2]

Node(type, value, children) ==
  [type |-> type, name |-> NoName, value |-> value, children |-> children]

-----------------------------------------------------------------------------
(* Parsing: the node and where the rest of the text starts, or a failure. *)

Parsed(node, at) == [ok |-> TRUE, node |-> node, at |-> at]
Failure == [ok |-> FALSE]

RECURSIVE skip(_, _)
skip(text, at) == IF Kind(text, at) = "white" THEN skip(text, at + 1) ELSE at

parse_number(text, at) == Parsed(Node("Number", Says(text, at), << >>), at + 1)

parse_string(text, at) ==
  IF Kind(text, at) = "string" THEN Parsed(Node("String", Says(text, at), << >>), at + 1) ELSE Failure

RECURSIVE parse_value(_, _), elements(_, _, _), members(_, _, _)

(* The elements of an array from at on, after those done. *)
elements(text, at, done) ==
  LET value == parse_value(text, skip(text, at))
      after == skip(text, value.at)
      all == Append(done, value.node)
  IN  CASE ~value.ok -> Failure
        [] value.ok /\ Kind(text, after) = "," -> elements(text, after + 1, all)
        [] value.ok /\ Kind(text, after) = "]" -> Parsed(Node("Array", NoValue, all), after + 1)
        [] OTHER -> Failure

parse_array(text, at) ==
  LET first == skip(text, at + 1)
  IN  IF Kind(text, first) = "]" THEN Parsed(Node("Array", NoValue, << >>), first + 1)
      ELSE elements(text, first, << >>)

(* The members of an object from at on, after those done. *)
members(text, at, done) ==
  LET name == parse_string(text, skip(text, at))
      colon == skip(text, name.at)
      value == parse_value(text, skip(text, colon + 1))
      after == skip(text, value.at)
      all == Append(done, [value.node EXCEPT !.name = name.node.value])
  IN  CASE ~name.ok -> Failure
        [] name.ok /\ Kind(text, colon) # ":" -> Failure
        [] name.ok /\ Kind(text, colon) = ":" /\ ~value.ok -> Failure
        [] OTHER ->
             CASE Kind(text, after) = "," -> members(text, after + 1, all)
               [] Kind(text, after) = "}" -> Parsed(Node("Object", NoValue, all), after + 1)
               [] OTHER -> Failure

parse_object(text, at) ==
  LET first == skip(text, at + 1)
  IN  IF Kind(text, first) = "}" THEN Parsed(Node("Object", NoValue, << >>), first + 1)
      ELSE members(text, first, << >>)

parse_value(text, at) ==
  CASE Kind(text, at) = "literal" -> Parsed(Node(Says(text, at), NoValue, << >>), at + 1)
    [] Kind(text, at) = "string" -> parse_string(text, at)
    [] Kind(text, at) = "number" -> parse_number(text, at)
    [] Kind(text, at) = "[" -> parse_array(text, at)
    [] Kind(text, at) = "{" -> parse_object(text, at)
    [] OTHER -> Failure

(* The value at the start of the text; what follows it is not looked at. *)
cJSON_Parse(text) == parse_value(text, skip(text, 1))

-----------------------------------------------------------------------------
(* Printing: compact, or with fmt line by line *)

print_string(string) == Lexeme("string", string)
print_number(node) == Lexeme("number", rounded[node.value])

SpaceIf(fmt) == IF fmt THEN <<White>> ELSE << >>

CommaAfter(i, children) == IF i < Len(children) THEN <<Mark(",")>> ELSE << >>

RECURSIVE print_value(_, _)

print_array(node, fmt) ==
  LET items == node.children
      comma(i) == CommaAfter(i, items) \o (IF i < Len(items) THEN SpaceIf(fmt) ELSE << >>)
  IN  <<Mark("[")>>
        \o FlattenSeq([i \in DOMAIN items |-> print_value(items[i], fmt) \o comma(i)])
        \o <<Mark("]")>>

print_object(node, fmt) ==
  LET items == node.children
      member(i) == <<print_string(items[i].name), Mark(":")>> \o SpaceIf(fmt)
                     \o print_value(items[i], fmt) \o CommaAfter(i, items) \o SpaceIf(fmt)
  IN  <<Mark("{")>> \o SpaceIf(fmt)
        \o FlattenSeq([i \in DOMAIN items |-> member(i)])
        \o <<Mark("}")>>

print_value(node, fmt) ==
  CASE node.type = "Object" -> print_object(node, fmt)
    [] node.type = "Array" -> print_array(node, fmt)
    [] node.type = "String" -> <<print_string(node.value)>>
    [] node.type = "Number" -> <<print_number(node)>>
    [] OTHER -> <<Lexeme("literal", node.type)>>

-----------------------------------------------------------------------------
(* Members of an object.  An element of an array has no name to compare. *)

SameName(child, string) == child.name # NoName /\ lower[child.name] = lower[string]

NoNode == Node("no node", NoValue, << >>)

(* The first child with the name; a node without children has none. *)
cJSON_GetObjectItem(object, string) ==
  LET found == SelectSeq(object.children, LAMBDA c : SameName(c, string))
  IN  IF found = << >> THEN NoNode ELSE Head(found)
=============================================================================
