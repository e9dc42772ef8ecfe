---------------------------- MODULE ConfigReader ----------------------------
(***************************************************************************)
(* utils/config_reader.c: a configuration file is parsed to a tree of      *)
(* nodes, and its parameters are stored, by path and type, into the fields *)
(* of a structure.  The functions are called as the header allows: no      *)
(* parameter is asked for without a tree.                                  *)
(*                                                                         *)
(* ConfigParamValue is a union: a double and a pointer are two words, an   *)
(* int is the low one.                                                     *)
(***************************************************************************)
EXTENDS Json

CONSTANTS
  Files,       (* the texts the configuration file may hold at first       *)
  DefLists,    (* sequences of ConfigParamDef: [path, type]                *)
  number,      (* [number -> [int, low, high]]: valueint, valuedouble      *)
  Word         (* what a field holds before it is stored                   *)

VARIABLES
  file,        (* what the file holds                                      *)
  _json_root,  (* the tree, or NoNode                                        *)
  text,        (* history: the text the tree was parsed from               *)
  defs,        (* the definitions config_load_params was called with       *)
  next,        (* the definition it is at, or 0: it has returned           *)
  ret,         (* its result; -2 when BUG stopped the program              *)
  base,        (* the fields, one for each definition: their two words     *)
  tree         (* history: the tree they were loaded from                  *)

vars == <<file, _json_root, text, defs, next, ret, base, tree>>

loadVars == <<defs, next, ret, base, tree>>
Idle == next = 0 /\ ret # -2

Untouched == [i \in 1 .. 2 |-> [low |-> Word, high |-> Word]]

Init ==
  /\ file \in Files
  /\ _json_root = NoNode
  /\ text = << >>
  /\ defs = << >>
  /\ next = 0
  /\ ret = 0
  /\ base = Untouched
  /\ tree = NoNode

(* Somebody writes the file anew, and has not got far, or not to the end. *)
EditFile ==
  /\ Idle /\ file \in Files
  /\ file' \in {<< >>, Front(file)}
  /\ UNCHANGED <<_json_root, text, loadVars>>

(* The buffer with the file, or none: it cannot be opened or read to its end. *)
load_file_to_buffer == {<<file>>, << >>}

(* A tree loaded before stays if there is no buffer, and is lost otherwise,  *)
(* also when the new text does not parse.                                    *)
init_config_reader ==
  /\ Idle
  /\ \E buffer \in load_file_to_buffer :
       IF buffer = << >> THEN UNCHANGED <<_json_root, text>>
       ELSE LET parsed == cJSON_Parse(buffer[1]) IN
            /\ _json_root' = IF parsed.ok THEN parsed.node ELSE NoNode
            /\ text' = buffer[1]
  /\ UNCHANGED <<file, loadVars>>

deinit_config_reader ==
  /\ Idle /\ _json_root # NoNode
  /\ _json_root' = NoNode
  /\ UNCHANGED <<file, text, loadVars>>

-----------------------------------------------------------------------------

(* mutant: the search goes on from the root for each part of the path *)
FromRoot(path) ==
  LET Step(node, name) == IF node = NoNode THEN NoNode ELSE cJSON_GetObjectItem(_json_root, name)
      node == FoldLeft(Step, _json_root, path)
  IN  IF node = _json_root THEN NoNode ELSE node

(* The names of the path, from the root down; a path of no name finds none. *)
get_json_obj_from_path(path) ==
  LET Step(node, name) == IF node = NoNode THEN NoNode ELSE cJSON_GetObjectItem(node, name)
      node == FoldLeft(Step, _json_root, path)
  IN  IF node = _json_root THEN NoNode ELSE node

(* The union after config_get_param: d is written first and i over it. *)
config_get_param(node) ==
  CASE node.type = "Number" ->
         [low |-> number[node.value].int, high |-> number[node.value].high]
    [] node.type = "String" -> [low |-> node.value, high |-> node.value]

(* The field takes the int or both words. *)
Stored(field, type, v) == IF type = "Integer" THEN [field EXCEPT !.low = v.low] ELSE v

config_load_params(ds) ==
  /\ Idle /\ _json_root # NoNode
  /\ defs' = ds
  /\ next' = 1
  /\ base' = Untouched
  /\ tree' = _json_root
  /\ UNCHANGED <<file, _json_root, text, ret>>

Return(r) == next' = 0 /\ ret' = r

(* One turn of config_load_params' loop. *)
LoadParam ==
  LET node == get_json_obj_from_path(defs[next].path) IN
  /\ next # 0
  /\ \/ node = NoNode /\ Return(-1) /\ UNCHANGED base
     \/ /\ node # NoNode /\ node.type \notin {"Number", "String"}
        /\ Return(-2) /\ UNCHANGED base
     \/ /\ node.type \in {"Number", "String"}
        /\ base' = [base EXCEPT ![next] = Stored(@, defs[next].type, config_get_param(node))]
        /\ IF next = Len(defs) THEN Return(0) ELSE next' = next + 1 /\ UNCHANGED ret
  /\ UNCHANGED <<file, _json_root, text, defs, tree>>

Next ==
  \/ EditFile \/ init_config_reader \/ deinit_config_reader
  \/ \E ds \in DefLists : config_load_params(ds)
  \/ LoadParam

-----------------------------------------------------------------------------
(* Properties *)

(* What the file says, without its white space, and a number as it is printed. *)
Lexemes(t) == SelectSeq(t, LAMBDA x : x # White)
Plain(t) == LET p == Lexemes(t) IN
  [i \in DOMAIN p |-> IF p[i][1] = "number" THEN Lexeme("number", rounded[p[i][2]]) ELSE p[i]]

(* The tree is the value the text begins with. *)
TreeIsTheText == _json_root # NoNode => IsPrefix(print_value(_json_root, FALSE), Plain(text))

(* The node at the end of a chain of child numbers, and the chains there are. *)
At(chain) == FoldLeft(LAMBDA n, i : n.children[i], tree, chain)
Children(chain) == DOMAIN At(chain).children

(* The chain follows the path: at each name, the first child of that name.   *)
Follows(chain, path) ==
  \A k \in DOMAIN path :
     LET above == SubSeq(chain, 1, k - 1)
         called == {i \in Children(above) : SameName(At(above).children[i], path[k])}
     IN  chain[k] \in called /\ \A i \in called : chain[k] <= i

MaxChildren == 2
Chains(path) == [1 .. Len(path) -> 1 .. MaxChildren]
IsThere(path) == path # << >> /\ \E chain \in Chains(path) : Follows(chain, path)
There(path) == At(CHOOSE chain \in Chains(path) : Follows(chain, path))

(* The field holds the parameter; of a double, the low word is lost. *)
Holds(field, type, node) ==
  CASE node.type = "Number" /\ type = "Integer" -> field.low = number[node.value].int
    [] node.type = "Number" /\ type = "Double" -> field.high = number[node.value].high
    [] node.type = "String" /\ type = "String" -> field = [low |-> node.value, high |-> node.value]
    [] OTHER -> TRUE

Usable(path) == IsThere(path) /\ There(path).type \in {"Number", "String"}

(* The fields stored are those before the first parameter not usable, or, in *)
(* the middle of the work, those before the next one.                        *)
FieldsAreTheFile ==
  \A i \in DOMAIN defs :
    IF /\ \A j \in 1 .. i : Usable(defs[j].path)
       /\ next = 0 \/ i < next
    THEN Holds(base[i], defs[i].type, There(defs[i].path))
    ELSE base[i] = Untouched[i]

(* What is read is what the file says: the tree is the text's, nested, empty *)
(* and repeated members included, whatever white space or damage it has, and *)
(* each field gets the parameter its path names, without regard to case, or, *)
(* from the first parameter that is missing on, nothing (cJSON.c 357-548,    *)
(* config_reader.c 88-170, 245-280).                                         *)
ConfigFindsWhatIsThere == TreeIsTheText /\ FieldsAreTheFile
=============================================================================
