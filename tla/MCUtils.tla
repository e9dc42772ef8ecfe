------------------------------- MODULE MCUtils -------------------------------
(***************************************************************************)
(* The utilities that share no state: the circular buffer, the string      *)
(* buffer, the item pool, the list, the request queue, the hash table, the *)
(* configuration reader and the trees of cJSON. Init chooses the one that  *)
(* is in use, the others rest.                                             *)
(*                                                                         *)
(* A circular buffer of three bytes with requests of up to four; a string  *)
(* buffer of eight bytes with three integers; two log writers over a pool  *)
(* of two buffers; two lists and three items; three requests of two        *)
(* priorities, callbacks nested three deep; four elements with three keys  *)
(* in two buckets; configurations nested two deep, printed compactly or    *)
(* not, and one with a lexeme lost or replaced; trees of four items.       *)
(***************************************************************************)
EXTENDS CircBufferSpec, ListHead, ItemPool, RequestQueue, TLC

CONSTANTS r1, r2, r3, e1, e2, e3, e4, c1, c2, c3, c4

TwoBytes == {0, 1}

VARIABLES
  use,
  sbuf, wrote, readback,
  cells, held, kids,
  buckets, call,
  file, _json_root, text, defs, next, ret, base, tree

circVars == <<cb, out>>
sbufVars == <<sbuf, wrote, readback>>
treeVars == <<cells, held, kids>>
hashVars == <<buckets, call>>
configVars == <<file, _json_root, text, defs, next, ret, base, tree>>

Ints == [u8 |-> {7, 255}, s8 |-> {-7, 127}, u16 |-> {258, 65535}, s16 |-> {-2},
         u32 |-> {16909060}, s32 |-> {-3, 65536}]
Sbuf == INSTANCE StringBuffer WITH Size <- 8, Values <- Ints, MaxWrites <- 3

TwoPriorities == r1 :> 1 @@ r2 :> 2 @@ r3 :> 2

Table == INSTANCE HashTable WITH
  Keys <- {<<0, 0>>, <<0, 1>>, <<1, 0>>},
  Elements <- {e1, e2, e3, e4},
  key <- (e1 :> <<0, 0>> @@ e2 :> <<0, 0>> @@ e3 :> <<0, 1>> @@ e4 :> <<1, 0>>),
  numBuckets <- 2

-----------------------------------------------------------------------------
(* The configurations *)

Names == [n \in {"a", "A", "b"} |-> IF n = "A" THEN "a" ELSE n]
Numbers == [n \in {"1.5", "2.0000001", "2.000000"} |->
  IF n = "1.5" THEN [int |-> "1", low |-> "0", high |-> "3ff80000"]
  ELSE [int |-> "2", low |-> "1ad7f2", high |-> "40000000"]]
Rounded == [n \in DOMAIN Numbers |-> IF n = "1.5" THEN n ELSE "2.000000"]

Json == INSTANCE Json WITH lower <- Names, rounded <- Rounded

Number(n) == Json!Node("Number", n, << >>)
Leaves == {Number("2.0000001"), Json!Node("String", "s", << >>), Json!Node("True", "", << >>)}
Named(name, node) == [node EXCEPT !.name = name]
Object(children) == Json!Node("Object", "", children)
Array(children) == Json!Node("Array", "", children)

Nested ==
  {Object(<< >>), Array(<< >>)}
    \cup {Array(<<n, Number("1.5")>>) : n \in Leaves}
    \cup {Object(<<Named("b", n)>>) : n \in Leaves}

Documents ==
  Leaves \cup Nested
    \cup {Object(<<Named("a", n), Named(x, m)>>) : n \in Leaves \cup Nested, m \in Leaves, x \in {"A", "b"}}

(* Printing rounds a number; a file need not. *)
Unrounded(t) ==
  [i \in DOMAIN t |-> IF t[i] = <<"number", "2.000000">> THEN <<"number", "2.0000001">> ELSE t[i]]
Written == {Unrounded(Json!print_value(d, fmt)) : d \in Documents, fmt \in BOOLEAN}

Sample ==
  LET list == Array(<<Number("1.5"), Object(<<Named("b", Json!Node("String", "s", << >>))>>)>>)
  IN  Json!print_value(Object(<<Named("a", list), Named("b", Object(<< >>))>>), FALSE)
Damaged ==
  {Json!RemoveAt(Sample, i) : i \in DOMAIN Sample}
    \cup {[Sample EXCEPT ![i] = Json!Mark(m)] : i \in DOMAIN Sample,
                                               m \in {",", ":", "]", "}", "{", "white", "junk"}}

Def(path, type) == [path |-> path, type |-> type]
Lists ==
  {<<Def(<<"a">>, t), Def(p, "Double")>> : t \in {"Integer", "String"},
                                           p \in {<<"b">>, <<"A", "b">>, << >>}}

Tree == INSTANCE JsonTree WITH
  Cells <- {c1, c2, c3, c4}, ItemNames <- {"a"}, lower <- Names, MaxNumbers <- 2

Config == INSTANCE ConfigReader WITH
  lower <- Names, rounded <- Rounded, number <- Numbers,
  Files <- Written \cup Damaged, DefLists <- Lists, Word <- "?"

-----------------------------------------------------------------------------
InitUtils ==
  /\ use \in {"buffer", "sbuf", "tree", "pool", "list", "requests", "table", "config"}
  /\ Init /\ (use # "buffer" => cb = CBInit(Size, [i \in 0 .. (Size - 1) |-> 0]))
  /\ Sbuf!Init
  /\ Tree!Init
  /\ PoolInit
  /\ ListInit
  /\ RequestsInit /\ (use # "requests" => cancels)
  /\ Table!Init
  /\ Config!Init /\ (use # "config" => file = Sample)

NextUtils ==
  /\ UNCHANGED use
  /\ \/ /\ use = "buffer" /\ Next
        /\ UNCHANGED <<sbufVars, treeVars, poolVars, mem, requestVars, hashVars, configVars>>
     \/ /\ use = "tree" /\ Tree!Next
        /\ UNCHANGED <<circVars, sbufVars, poolVars, mem, requestVars, hashVars, configVars>>
     \/ /\ use = "sbuf" /\ Sbuf!Next
        /\ UNCHANGED <<circVars, treeVars, poolVars, mem, requestVars, hashVars, configVars>>
     \/ /\ use = "pool" /\ PoolNext
        /\ UNCHANGED <<circVars, sbufVars, treeVars, mem, requestVars, hashVars, configVars>>
     \/ /\ use = "list" /\ ListNext
        /\ UNCHANGED <<circVars, sbufVars, treeVars, poolVars, requestVars, hashVars, configVars>>
     \/ /\ use = "requests" /\ RequestsNext
        /\ UNCHANGED <<circVars, sbufVars, treeVars, poolVars, mem, hashVars, configVars>>
     \/ /\ use = "table" /\ Table!Next
        /\ UNCHANGED <<circVars, sbufVars, treeVars, poolVars, mem, requestVars, configVars>>
     \/ /\ use = "config" /\ Config!Next
        /\ UNCHANGED <<circVars, sbufVars, treeVars, poolVars, mem, requestVars, hashVars>>

allVars == <<use, circVars, sbufVars, treeVars, poolVars, mem, requestVars, hashVars, configVars>>

(* The pool's threads are scheduled fairly; without a log_write, which only  *)
(* the pool in use has, none of them has a step to take.                     *)
SpecUtils == InitUtils /\ [][NextUtils]_allVars /\ PoolFairness

-----------------------------------------------------------------------------
(* The properties of the instances, stated in their modules. *)

(* ListHead, JsonTree and StringBuffer: the rings of list.h, the chains of    *)
(* cJSON.c and the string buffer hold what was put into them, in its order    *)
(* (list.h 67-300, cJSON.c 660-733, sbuf.c 5-68).                            *)
ImplementsSequences ==
  RingsAreSequences /\ []Tree!TreesAreAsBuilt /\ []Sbuf!ReadsAreWrites

(* HashTable: calls act as on a map (bhash.c 112-194). *)
HashIsMap == Table!HashIsMap

(* ConfigReader: parameters are read as written (config_reader.c 88-280). *)
ConfigFindsWhatIsThere == Config!ConfigFindsWhatIsThere
=============================================================================
