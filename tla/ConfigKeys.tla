----------------------------- MODULE ConfigKeys -----------------------------
(***************************************************************************)
(* How sylar's configuration names are checked and matched: Config::Lookup *)
(* registering variables at static initialisation (the config.h part of   *)
(* src/sylar/hook.cc), and Config::LoadFromYaml (src/sylar/config.cc)      *)
(* flattening a YAML document with ListAllMember, lowercasing each key,    *)
(* finding its variable with LookupBase and calling fromString.            *)
(*                                                                         *)
(* A name or key is a sequence of one-character strings.  A YAML node is a *)
(* scalar or a map whose items keep their order in the document.  Values  *)
(* are strings; lexical_cast succeeds on those in IntScalars.  Config.tla  *)
(* models reloading and setValue's locking; this module models only which  *)
(* variable each entry of a document reaches.                              *)
(***************************************************************************)
EXTENDS Naturals, Sequences, SequencesExt

CONSTANTS
    Chars,        \* the characters names and keys are made of
    ToLowerChar,  \* ::tolower on Chars
    Keys,         \* the map keys a document may use
    Scalars,      \* the scalar texts a document may hold
    IntScalars,   \* those lexical_cast<int> accepts
    Default,      \* the default value each Lookup call passes
    LookupCalls,  \* the Lookup(name, default) calls of static initialisation
    MaxWidth,     \* bound on the items of one map
    MaxDepth      \* bound on the nesting of maps

ASSUME /\ ToLowerChar \in [Chars -> Chars]
       /\ Keys \subseteq Seq(Chars) /\ IntScalars \subseteq Scalars
       /\ \A i \in DOMAIN LookupCalls : LookupCalls[i].name \in Seq(Chars)
       /\ {MaxWidth, MaxDepth} \subseteq Nat

VARIABLES
    datas,    \* Config::GetDatas(): name -> [type, val] of each ConfigVar
    results,  \* what each Lookup call returned: "var", "null" or "throw"
    tree,     \* the YAML document LoadFromYaml is given
    loaded    \* LoadFromYaml has returned

vars == <<datas, results, tree, loaded>>

-----------------------------------------------------------------------------
Digits  == {"0", "1", "2", "3", "4", "5", "6", "7", "8", "9"}
Letters == {"a", "b", "c", "d", "e", "f", "g", "h", "i", "j", "k", "l", "m",
            "n", "o", "p", "q", "r", "s", "t", "u", "v", "w", "x", "y", "z"}

(* The set find_first_not_of is given in Lookup and ListAllMember:         *)
(* "abcdefghikjlmnopqrstuvwxyz._012345678".                                *)
NameChars == Letters \cup {".", "_"} \cup (Digits \ {"9"})

(* name.find_first_not_of(NameChars) == std::string::npos                  *)
ValidName(s) == \A i \in DOMAIN s : s[i] \in NameChars

(* The characters Lookup's comment allows: [0-9a-z_.].                     *)
DocumentedName(s) == \A i \in DOMAIN s : s[i] \in Letters \cup Digits \cup {".", "_"}

(* std::transform(..., ::tolower)                                          *)
Lower(s) == [i \in DOMAIN s |-> ToLowerChar[s[i]]]

(* Mutant: the dot is added to an empty prefix as well.                   *)
JoinAlwaysDot(prefix, key) == prefix \o <<".">> \o key

(* prefix.empty() ? key : prefix + "." + key                               *)
Join(prefix, key) == IF prefix = <<>> THEN key ELSE prefix \o <<".">> \o key

-----------------------------------------------------------------------------
(* YAML nodes up to depth d: scalars, and maps of up to MaxWidth items    *)
(* with distinct keys.                                                     *)
ScalarNodes == {[kind |-> "scalar", val |-> s, items |-> <<>>] : s \in Scalars}

MapNodes(S) ==
    {[kind |-> "map", val |-> "", items |-> its] :
        its \in {its \in UNION {[1..k -> Keys \X S] : k \in 0..MaxWidth} :
                   \A i, j \in DOMAIN its : i # j => its[i][1] # its[j][1]}}

RECURSIVE NodesOf(_)
NodesOf(d) == ScalarNodes \cup (IF d = 0 THEN {} ELSE MapNodes(NodesOf(d - 1)))

Trees == NodesOf(MaxDepth)

-----------------------------------------------------------------------------
(* ListAllMember(prefix, node, output): a prefix with a character outside  *)
(* NameChars is logged and its whole subtree skipped; otherwise the pair   *)
(* is appended and a map's items are walked in document order.            *)
RECURSIVE ListAllMember(_, _)
ListAllMember(prefix, node) ==
    IF ~ValidName(prefix) THEN <<>>
    ELSE <<[name |-> prefix, node |-> node]>>
         \o FlattenSeq([i \in DOMAIN node.items |->
                          ListAllMember(Join(prefix, node.items[i][1]),
                                        node.items[i][2])])

(* Mutant: a scalar that does not convert is stored as it is.             *)
FromStringUnchecked(d, name, node) ==
    IF node.kind = "scalar" THEN [d EXCEPT ![name].val = node.val] ELSE d

(* Mutant: a map node is stored as the text of its YAML dump.             *)
FromStringDump(d, name, node) ==
    IF node.kind = "scalar" /\ node.val \notin IntScalars THEN d
    ELSE [d EXCEPT ![name].val = node.val]

(* ConfigVar::fromString: setValue(lexical_cast<T>(text)); a scalar that   *)
(* does not convert, or a map's YAML dump, throws and is caught.  setValue *)
(* of an equal value returns without a change.                             *)
FromString(d, name, node) ==
    IF node.kind = "scalar" /\ node.val \in IntScalars
    THEN [d EXCEPT ![name].val = node.val]
    ELSE d

(* Config::LookupBase(name): the variable stored under name, if any.     *)
LookupBase(d, name) == name \in DOMAIN d

(* One entry of LoadFromYaml's loop: an empty key is skipped; the key is  *)
(* lowercased and LookupBase finds its variable, or nothing.               *)
LoadEntry(d, e) ==
    LET key == Lower(e.name) IN
    IF e.name = <<>> \/ ~LookupBase(d, key) THEN d
    ELSE FromString(d, key, e.node)

(* Config::Lookup(name, default): an existing name returns its variable   *)
(* when the type matches and nullptr when it does not; a new name with a   *)
(* character outside NameChars throws std::invalid_argument, which at      *)
(* static initialisation ends the program; otherwise a ConfigVar holding   *)
(* the default is created and stored.                                      *)
LookupCall ==
    LET c == LookupCalls[Len(results) + 1] IN
    /\ Len(results) < Len(LookupCalls)
    /\ \A i \in DOMAIN results : results[i] # "throw"
    /\ CASE c.name \in DOMAIN datas ->
              /\ results' = Append(results,
                                   IF datas[c.name].type = c.type THEN "var" ELSE "null")
              /\ UNCHANGED datas
         [] ~ValidName(c.name) ->
              /\ results' = Append(results, "throw")
              /\ UNCHANGED datas
         [] OTHER ->
              /\ datas' = datas @@ (c.name :> [type |-> c.type, val |-> Default])
              /\ results' = Append(results, "var")
    /\ UNCHANGED <<tree, loaded>>

(* Config::LoadFromYaml(root) once static initialisation has finished.    *)
LoadFromYaml ==
    /\ Len(results) = Len(LookupCalls) /\ ~loaded
    /\ \A i \in DOMAIN results : results[i] # "throw"
    /\ datas' = FoldLeft(LoadEntry, datas, ListAllMember(<<>>, tree))
    /\ loaded' = TRUE
    /\ UNCHANGED <<results, tree>>

Init ==
    /\ datas = [n \in {} |-> [type |-> "", val |-> Default]]
    /\ results = <<>>
    /\ tree \in Trees
    /\ loaded = FALSE

Next == LookupCall \/ LoadFromYaml

Spec == Init /\ [][Next]_vars

-----------------------------------------------------------------------------
TypeOK ==
    /\ DOMAIN datas \subseteq Seq(Chars)
    /\ \A n \in DOMAIN datas : datas[n].val \in Scalars \cup {Default}
    /\ results \in Seq({"var", "null", "throw"})
    /\ tree \in Trees
    /\ loaded \in BOOLEAN

(* Every node of the document with the keys leading to it.                 *)
RECURSIVE NodesBelow(_, _)
NodesBelow(keys, node) ==
    {<<keys, node>>}
    \cup UNION {NodesBelow(Append(keys, node.items[i][1]), node.items[i][2]) :
                  i \in DOMAIN node.items}

(* A node's dotted name: its keys joined with ".".                         *)
DottedName(keys) ==
    IF keys = <<>> THEN <<>>
    ELSE FoldLeft(LAMBDA acc, k : acc \o <<".">> \o k, Head(keys), Tail(keys))

(* ListAllMember's recursion, which stops at the first invalid prefix,    *)
(* lists exactly the nodes of the document whose dotted name is made of    *)
(* the characters Lookup's comment allows, [0-9a-z_.]: pruning a subtree   *)
(* loses no such name, and the "prefix.empty()" join builds the same names *)
(* as joining the keys with dots.  (A key with a 9 breaks it: finding 21.) *)
WalkMatchesReference ==
    ToSet(ListAllMember(<<>>, tree))
      = {[name |-> DottedName(p[1]), node |-> p[2]] :
           p \in {q \in NodesBelow(<<>>, tree) : DocumentedName(DottedName(q[1]))}}

(* After LoadFromYaml, a variable Lookup registered holds an integer       *)
(* scalar of the document exactly when the document has one under the      *)
(* variable's valid name, and keeps its default otherwise: lowercasing,    *)
(* LookupBase and fromString's caught conversions reach the right variable.*)
FileSetsRegistered ==
    loaded =>
      \A n \in DOMAIN datas :
        LET set == {p[2].val : p \in {q \in NodesBelow(<<>>, tree) :
                                        /\ ValidName(DottedName(q[1]))
                                        /\ DottedName(q[1]) = n
                                        /\ q[2].kind = "scalar"
                                        /\ q[2].val \in IntScalars}}
        IN IF set = {} THEN datas[n].val = Default ELSE datas[n].val \in set

(* Lookup's comment: a name outside [0-9a-z_.] throws, so every name made  *)
(* of those characters is registered.                                      *)
DocumentedNamesAccepted ==
    \A i \in DOMAIN results :
        DocumentedName(LookupCalls[i].name) => results[i] # "throw"

(* The example beside ListAllMember: the document "A: B: 10" sets the      *)
(* variable "A.B", which LoadFromYaml's tolower finds as "a.b".  Every      *)
(* integer scalar whose lowercased dotted name is registered is applied.   *)
KeysCaseInsensitive ==
    loaded =>
      \A q \in NodesBelow(<<>>, tree) :
        (/\ Lower(DottedName(q[1])) \in DOMAIN datas
         /\ q[2].kind = "scalar" /\ q[2].val \in IntScalars
         /\ \A r \in NodesBelow(<<>>, tree) :
              Lower(DottedName(r[1])) = Lower(DottedName(q[1])) => r = q)
           => datas[Lower(DottedName(q[1]))].val = q[2].val
=============================================================================
