-------------------------- MODULE ResultConversion --------------------------
(***************************************************************************)
(* helpers: the value of the final expression as a JSON-safe result, and   *)
(* the text of a host tool as a Python value.                              *)
(*                                                                         *)
(* A value is a tree.  The kinds are those of Python values; "pair" is an  *)
(* entry of a dict or an attribute of an object, "json" a text that is the *)
(* JSON of its item, "odd" anything that the code does not know.           *)
(***************************************************************************)
EXTENDS Naturals, Sequences, FiniteSetsExt, Functions, TLC

Leaf(kind, text) == [kind |-> kind, text |-> text, items |-> <<>>]

Node(kind, items) == [kind |-> kind, text |-> "", items |-> items]

Pair(key, value) == Node("pair", <<key, value>>)

Named(tag, value) == Node("dict", <<Pair(Leaf("str", tag), value)>>)

None   == Leaf("null", "None")
Raised == Leaf("raised", "an exception, raised in the sandbox")

CONSTANTS Values,   \* the values under consideration
          Height    \* of each: above all its parts

Parts(v) == {v.items[i] : i \in DOMAIN v.items}

Scalars == {"null", "int", "str", "json"}

Listed == {"list", "tuple", "set", "frozenset"}

TagOf == [tuple |-> "$tuple", set |-> "$set", frozenset |-> "$frozenset"]

Tags == {"$tuple", "$set", "$frozenset", "$bytes", "$dict", "$object"}

\* A mistake: lists and dicts are handed on as they are
NotWalked(v, part) == v

----------------------------------------------------------------------------
\* json.dumps accepts the value: scalars may be keys, tuples pass for lists.
\* One step; part: what it says of the items of v
DumpsOnce(v, part) ==
    CASE v.kind \in Scalars -> TRUE
      [] v.kind \in {"list", "tuple", "dict"} -> \A i \in DOMAIN part : part[i]
      [] v.kind = "pair" -> v.items[1].kind \in Scalars /\ part[2]
      [] OTHER -> FALSE

Dumps[v \in Values] ==
    DumpsOnce(v, [i \in DOMAIN v.items |-> Dumps[v.items[i]]])

HasTextKeys(v) == \A p \in Parts(v) : p.items[1].kind \in {"str", "json"}

\* One step of _tagged; part: the items of v, tagged
Walked(v, part) == Node(v.kind, part)

TaggedOnce(v, part) ==
    CASE v.kind \in Scalars -> v
      [] v.kind \in DOMAIN TagOf -> Named(TagOf[v.kind], Node("list", part))
      [] v.kind = "bytes" -> Named("$bytes", Leaf("str", v.text))
      [] v.kind \in {"list", "pair"} -> Walked(v, part)
      [] v.kind = "dict" /\ HasTextKeys(v) -> Walked(v, part)
      [] v.kind = "dict" /\ ~ HasTextKeys(v) ->
            Named("$dict", Node("list", [i \in DOMAIN part |->
                                            Node("list", part[i].items)]))
      [] v.kind = "object" ->
            Named("$object",
                  Node("dict", <<Pair(Leaf("str", "name"), Leaf("str", v.text)),
                                 Pair(Leaf("str", "attributes"),
                                      Node("dict", part))>>))
      [] OTHER -> Leaf("str", "repr")

Tagged[v \in Values] ==
    TaggedOnce(v, [i \in DOMAIN v.items |-> Tagged[v.items[i]]])

JsonableOutput(v) == IF Dumps[v] THEN v ELSE Tagged[v]

----------------------------------------------------------------------------
IsText(v) == v.kind \in {"str", "json"}

\* What a value that json.dumps accepts is after the way there and back
\* (external): tuples are lists, keys are texts
JsonFormOnce(v, part) ==
    CASE v.kind \in Scalars -> v
      [] v.kind = "tuple" -> Node("list", part)
      [] v.kind = "pair" /\ ~ IsText(v.items[1]) ->
            Pair(Leaf("str", v.items[1].text), part[2])
      [] OTHER -> Node(v.kind, part)

JsonForm[v \in Values] ==
    JsonFormOnce(v, [i \in DOMAIN v.items |-> JsonForm[v.items[i]]])

JsonText(v) == Node("json", <<JsonForm[v]>>)

(***************************************************************************)
(* LangChain takes a list for the content blocks of a message if all its   *)
(* elements are texts or dicts with a type that it knows, also if there    *)
(* are none (external).                                                    *)
(***************************************************************************)
BlockTypes ==
    {"text", "image_url", "image", "json", "search_result",
     "custom_tool_call_output", "document", "file"}

\* What a dict has under a key
Under(v, key) == {p.items[2] : p \in {q \in Parts(v) : q.items[1] = Leaf("str", key)}}

IsBlock(v) ==
    \/ IsText(v)
    \/ v.kind = "dict" /\ \E t \in Under(v, "type") :
                            t.kind = "str" /\ t.text \in BlockTypes

IsBlocks(v) == v.kind = "list" /\ \A p \in Parts(v) : IsBlock(p)

\* message.text (external): texts and the texts of "text" blocks are joined, the
\* rest is lost.  What several texts make together is not looked into.
TextsIn(block) ==
    IF IsText(block) THEN {block}
    ELSE {t \in Under(block, "text") :
             IsText(t) /\ Leaf("str", "text") \in Under(block, "type")}

TextOf(v) ==
    LET texts == {i \in DOMAIN v.items : TextsIn(v.items[i]) # {}}
    IN  IF IsText(v) THEN v
        ELSE IF texts = {} THEN Leaf("str", "")
        ELSE IF Cardinality(texts) > 1 THEN Leaf("str", "joined")
        ELSE CHOOSE t \in UNION {TextsIn(v.items[i]) : i \in texts} : TRUE

DeserializeReturnValue(v) == IF v.kind = "json" THEN v.items[1] ELSE v

----------------------------------------------------------------------------
(***************************************************************************)
(* The values are finite trees of this shape (external): entries are in    *)
(* dicts and objects only, the names of attributes are texts, no number    *)
(* is written as a tag, and a text of JSON is of a value in JSON's form.   *)
(***************************************************************************)
IsPair(v) == v.kind = "pair"

HasShape(v) ==
    \/ v.kind \in {"null", "int"} /\ v.items = <<>> /\ v.text \notin Tags
    \/ v.kind \in {"str", "bytes", "odd"} /\ v.items = <<>>
    \/ /\ v.kind = "json" /\ v.text = "" /\ Len(v.items) = 1
       /\ \A p \in Parts(v) : ~ IsPair(p) /\ Dumps[p] /\ JsonForm[p] = p
    \/ v.kind \in Listed /\ v.text = "" /\ \A p \in Parts(v) : ~ IsPair(p)
    \/ v.kind = "dict" /\ v.text = "" /\ \A p \in Parts(v) : IsPair(p)
    \/ /\ v.kind = "object"
       /\ \A p \in Parts(v) : IsPair(p) /\ p.items[1].kind = "str"
    \/ /\ v.kind = "pair" /\ v.text = "" /\ Len(v.items) = 2
       /\ \A p \in Parts(v) : ~ IsPair(p)

ASSUME ValuesAssumption ==
    /\ None \in Values
    /\ \A v \in Values :
          /\ v = [kind |-> v.kind, text |-> v.text, items |-> v.items]
          /\ v.items \in Seq(Values) /\ HasShape(v)

ASSUME HeightAssumption ==
    /\ Height \in [Values -> Nat]
    /\ \A v \in Values : \A p \in Parts(v) : Height[p] < Height[v]
=============================================================================
