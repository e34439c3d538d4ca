----------------------------- MODULE ValueProofs -----------------------------
(***************************************************************************)
(* What is kept of a value: of the one that a tool returns, and of the one *)
(* that the code computes.  For all values, however deep.                  *)
(***************************************************************************)
EXTENDS AgentProofs

----------------------------------------------------------------------------
(***************************************************************************)
(* The recursions over values define functions, since parts are lower.     *)
(***************************************************************************)
OfItems(v, f) == [i \in DOMAIN v.items |-> f[v.items[i]]]

DumpsStep(a, v, f) == DumpsOnce(v, OfItems(v, f))
TaggedStep(a, v, f) == TaggedOnce(v, OfItems(v, f))
JsonFormStep(a, v, f) == JsonFormOnce(v, OfItems(v, f))
AmbiguousStep(a, v, f) ==
    v.kind = "odd" \/ HasTagKey(v) \/ \E i \in DOMAIN v.items : f[v.items[i]]

DumpsRec == INSTANCE Recursion WITH Step <- DumpsStep
TaggedRec == INSTANCE Recursion WITH Step <- TaggedStep
JsonFormRec == INSTANCE Recursion WITH Step <- JsonFormStep
AmbiguousRec == INSTANCE Recursion WITH Step <- AmbiguousStep

\* The parts of a value are values, and lower.
LEMMA Items ==
    ASSUME NEW v \in Values
    PROVE  /\ v.items \in Seq(Values) /\ Len(v.items) \in Nat
           /\ DOMAIN v.items = 1..Len(v.items)
           /\ \A i \in DOMAIN v.items : /\ v.items[i] \in Values
                                        /\ v.items[i] \in Parts(v)
                                        /\ Height[v.items[i]] < Height[v]
<1>1. v.items \in Seq(Values)
  BY ValuesAssumption
<1>2. /\ Len(v.items) \in Nat /\ DOMAIN v.items = 1..Len(v.items)
      /\ \A i \in DOMAIN v.items : v.items[i] \in Values
  BY <1>1
<1>3. \A i \in DOMAIN v.items : v.items[i] \in Parts(v)
  BY DEF Parts
<1>4. QED
  BY <1>1, <1>2, <1>3, HeightAssumption

LEMMA SameOfItems ==
    ASSUME NEW v \in Values, NEW f, NEW g,
           \A p \in Values : Height[p] < Height[v] => f[p] = g[p]
    PROVE  /\ OfItems(v, f) = OfItems(v, g)
           /\ \A i \in DOMAIN v.items : f[v.items[i]] = g[v.items[i]]
<1>1. \A i \in DOMAIN v.items : f[v.items[i]] = g[v.items[i]]
  BY Items
<1>2. QED
  BY <1>1 DEF OfItems

LEMMA DumpsValue ==
    ASSUME NEW v \in Values
    PROVE  Dumps[v] = DumpsOnce(v, OfItems(v, Dumps))
<1>1. DumpsRec!LooksLower({}, Values, Height)
  BY SameOfItems DEF DumpsRec!LooksLower, DumpsStep
<1>2. \E f : DumpsRec!Solves({}, Values, f)
  BY <1>1, HeightAssumption, DumpsRec!RecursionExists
<1>3. Dumps = CHOOSE f : DumpsRec!Solves({}, Values, f)
  BY DEF Dumps, DumpsRec!Solves, DumpsStep, OfItems
<1>4. DumpsRec!Solves({}, Values, Dumps)
  BY <1>2, <1>3
<1>5. QED
  BY <1>4 DEF DumpsRec!Solves, DumpsStep

LEMMA TaggedValue ==
    ASSUME NEW v \in Values
    PROVE  Tagged[v] = TaggedOnce(v, OfItems(v, Tagged))
<1>1. TaggedRec!LooksLower({}, Values, Height)
  BY SameOfItems DEF TaggedRec!LooksLower, TaggedStep
<1>2. \E f : TaggedRec!Solves({}, Values, f)
  BY <1>1, HeightAssumption, TaggedRec!RecursionExists
<1>3. Tagged = CHOOSE f : TaggedRec!Solves({}, Values, f)
  BY DEF Tagged, TaggedRec!Solves, TaggedStep, OfItems
<1>4. TaggedRec!Solves({}, Values, Tagged)
  BY <1>2, <1>3
<1>5. QED
  BY <1>4 DEF TaggedRec!Solves, TaggedStep

LEMMA JsonFormValue ==
    ASSUME NEW v \in Values
    PROVE  JsonForm[v] = JsonFormOnce(v, OfItems(v, JsonForm))
<1>1. JsonFormRec!LooksLower({}, Values, Height)
  BY SameOfItems DEF JsonFormRec!LooksLower, JsonFormStep
<1>2. \E f : JsonFormRec!Solves({}, Values, f)
  BY <1>1, HeightAssumption, JsonFormRec!RecursionExists
<1>3. JsonForm = CHOOSE f : JsonFormRec!Solves({}, Values, f)
  BY DEF JsonForm, JsonFormRec!Solves, JsonFormStep, OfItems
<1>4. JsonFormRec!Solves({}, Values, JsonForm)
  BY <1>2, <1>3
<1>5. QED
  BY <1>4 DEF JsonFormRec!Solves, JsonFormStep

\* A value is ambiguous in itself or by a part.
LEMMA AmbiguousValue ==
    ASSUME NEW v \in Values
    PROVE  Ambiguous[v] <=> \/ v.kind = "odd" \/ HasTagKey(v)
                            \/ \E i \in DOMAIN v.items : Ambiguous[v.items[i]]
<1>1. AmbiguousRec!LooksLower({}, Values, Height)
  BY SameOfItems DEF AmbiguousRec!LooksLower, AmbiguousStep
<1>2. \E f : AmbiguousRec!Solves({}, Values, f)
  BY <1>1, HeightAssumption, AmbiguousRec!RecursionExists
<1>3. Ambiguous = CHOOSE f : AmbiguousRec!Solves({}, Values, f)
  BY DEF Ambiguous, AmbiguousRec!Solves, AmbiguousStep
<1>4. AmbiguousRec!Solves({}, Values, Ambiguous)
  BY <1>2, <1>3
<1>5. QED
  BY <1>4 DEF AmbiguousRec!Solves, AmbiguousStep

----------------------------------------------------------------------------
(***************************************************************************)
(* What the code was given, and what its call returned                     *)
(***************************************************************************)
Extracted(c) == ExtractToolOutput(ToolOutcome(request[c].how, request[c].value))

HandedBack(c) ==
    /\ Invoked(c) => got[c] = Extracted(c)
    /\ result[c].error = "none" =>
          result[c].result = JsonableOutput(request[c].final)

HandedBackInv == /\ got = [c \in Calls |-> got[c]]
                 /\ \A c \in Calls : HandedBack(c)

LEMMA HandedBackInit == Init => HandedBackInv
<1> SUFFICES ASSUME Init PROVE HandedBackInv
  OBVIOUS
<1>1. got = [c \in Calls |-> got[c]]
  BY DEF Init
<1>2. ASSUME NEW c \in Calls PROVE HandedBack(c)
  <2>1. ~ Invoked(c) /\ result[c].error = "unfinished"
    BY DEF Init, Invoked, NoResult, Failure
  <2>2. QED
    BY <2>1 DEF HandedBack
<1>3. QED
  BY <1>1, <1>2 DEF HandedBackInv

LEMMA HandedBackStep ==
    RecordsInv /\ CrossingInv /\ HandedBackInv /\ [Next]_vars => HandedBackInv'
<1> SUFFICES ASSUME RecordsInv, CrossingInv, HandedBackInv, [Next]_vars
             PROVE  HandedBackInv'
  OBVIOUS
<1>1. CASE UNCHANGED vars
  BY <1>1 DEF vars, HandedBackInv, HandedBack, Invoked, Extracted
<1> SUFFICES ASSUME NEW c \in Calls, Step(c) PROVE HandedBackInv'
  BY <1>1 DEF Next, AllDone
<1>2. request' = request
  BY DEF Step, AmendModelRequest, StartLeg, LoadRecord, CheckTypes, RejectCall, Interrupt,
         HumanAnswers, InvokeTool, Complete, Return
<1>3. /\ got = [d \in Calls |-> got[d]]
      /\ received = [d \in Calls |-> received[d]]
      /\ result = [d \in Calls |-> result[d]]
      /\ \A d \in Calls : HandedBack(d) /\ Crosses(d)
  BY DEF HandedBackInv, CrossingInv
<1>4. \A d \in Calls : Extracted(d)' = Extracted(d)
  BY <1>2 DEF Extracted
\* Nothing handed over in either direction, or an error returned
<1>5. ASSUME \/ UNCHANGED <<received, got, result>>
             \/ /\ UNCHANGED <<received, got>>
                /\ \E type : type # "none"
                              /\ result' = [result EXCEPT ![c] = Failure(type)]
      PROVE  HandedBackInv'
  <2>1. /\ received' = received /\ got' = got
        /\ \A d \in Calls : result'[d].error = "none" => result'[d] = result[d]
    BY <1>3, <1>5 DEF Failure
  <2>2. QED
    BY <1>2, <1>3, <1>4, <2>1 DEF HandedBackInv, HandedBack, Invoked
<1>6. CASE \/ AmendModelRequest(c) \/ StartLeg(c) \/ LoadRecord(c)
           \/ Interrupt(c) \/ HumanAnswers(c) \/ Return(c)
  BY <1>5, <1>6 DEF AmendModelRequest, StartLeg, LoadRecord, Interrupt,
                    HumanAnswers, Return
<1>7. CASE CheckTypes(c)
  BY <1>5, <1>7 DEF CheckTypes
\* A call that is refused its tool has not invoked one before
<1>8. CASE RejectCall(c)
  <2>1. /\ at[c] = "call" /\ received' = received /\ result' = result
        /\ got' = [got EXCEPT ![c] = Raised]
    BY <1>8 DEF RejectCall
  <2>2. ~ Invoked(c)
    BY <1>3, <2>1 DEF Crosses
  <2>3. /\ got' = [d \in Calls |-> got'[d]]
        /\ \A d \in Calls : d # c => got'[d] = got[d]
    BY <1>3, <2>1
  <2>4. QED
    BY <1>2, <1>3, <1>4, <2>1, <2>2, <2>3 DEF HandedBackInv, HandedBack, Invoked
<1>9. CASE InvokeTool(c)
  <2>1. /\ result' = result
        /\ got' = [got EXCEPT ![c] =
              ExtractToolOutput(ToolOutcome(Running(c).how, Running(c).value))]
        /\ \A d \in Calls : d # c => received'[d] = received[d]
    BY <1>3, <1>9 DEF InvokeTool
  <2>2. Running(c) = request[c]
    BY OwnCode
  <2>3. /\ got' = [d \in Calls |-> got'[d]] /\ got'[c] = Extracted(c)
        /\ \A d \in Calls : d # c => got'[d] = got[d]
    BY <1>3, <2>1, <2>2 DEF Extracted
  <2>4. QED
    BY <1>2, <1>3, <1>4, <2>1, <2>3 DEF HandedBackInv, HandedBack, Invoked
<1>10. CASE Complete(c)
  <2>1. /\ received' = received /\ got' = got
        /\ result' = [result EXCEPT ![c] =
              IF got[c] = Raised THEN Failure("RuntimeError")
              ELSE Success(JsonableOutput(Running(c).final))]
    BY <1>10 DEF Complete
  <2>2. CASE got[c] = Raised
    BY <1>5, <2>1, <2>2
  <2>3. CASE got[c] # Raised
    <3>1. Running(c) = request[c]
      BY OwnCode
    <3>2. /\ result'[c] = Success(JsonableOutput(request[c].final))
          /\ \A d \in Calls : d # c => result'[d] = result[d]
      BY <1>3, <2>1, <2>3, <3>1
    <3>3. result'[c].result = JsonableOutput(request[c].final)
      BY <3>2 DEF Success
    <3>4. QED
      BY <1>2, <1>3, <1>4, <2>1, <3>2, <3>3
      DEF HandedBackInv, HandedBack, Invoked
  <2>4. QED
    BY <2>2, <2>3
<1>11. QED
  BY <1>6, <1>7, <1>8, <1>9, <1>10 DEF Step

LEMMA HandedBackKept == Spec => [](RecordsInv /\ CrossingInv /\ HandedBackInv)
<1>1. Init => RecordsInv /\ CrossingInv /\ HandedBackInv
  BY RecordsInit, CrossingInit, HandedBackInit
<1>2. (RecordsInv /\ CrossingInv /\ HandedBackInv) /\ [Next]_vars
         => (RecordsInv /\ CrossingInv /\ HandedBackInv)'
  BY RecordsStep, CrossingStep, HandedBackStep
<1>3. QED
  BY <1>1, <1>2, PTL DEF Spec

\* A value that is written as JSON arrives as JSON has it, and a text as it is
\* unless it is JSON.
LEMMA ValueArrives ==
    ASSUME NEW v \in Values, Dumps[v], ~ IsBlocks(v)
    PROVE  ExtractToolOutput(ToolOutcome("value", v))
              = IF v.kind = "json" THEN v.items[1] ELSE JsonForm[v]
<1> DEFINE message == ToolOutcome("value", v)
<1>1. /\ message.kind = "message" /\ message.status = "success"
      /\ message.artifact = None /\ message.content = ContentOf(v)
  BY DEF ToolOutcome
<1> HIDE DEF message
<1>2. ExtractToolOutput(message) = DeserializeReturnValue(TextOf(ContentOf(v)))
  BY <1>1 DEF ExtractToolOutput
<1>3. CASE IsText(v)
  <2>1. TextOf(ContentOf(v)) = v
    BY <1>3 DEF ContentOf, TextOf
  <2>2. JsonForm[v] = v
    BY <1>3, JsonFormValue DEF IsText, JsonFormOnce, Scalars
  <2>3. QED
    BY <1>2, <2>1, <2>2 DEF DeserializeReturnValue, message
<1>4. CASE ~ IsText(v)
  <2>1. ContentOf(v) = JsonText(v)
    BY <1>4 DEF ContentOf
  <2>2. /\ JsonText(v).kind = "json" /\ JsonText(v).items[1] = JsonForm[v]
        /\ IsText(JsonText(v))
    BY DEF JsonText, Node, IsText
  <2>3. DeserializeReturnValue(TextOf(JsonText(v))) = JsonForm[v]
    BY <2>2 DEF TextOf, DeserializeReturnValue
  <2>4. QED
    BY <1>2, <1>4, <2>1, <2>3 DEF IsText, message
<1>5. QED
  BY <1>3, <1>4

\* Whatever a tool returns, however deep: it reaches the code as JSON has it,
\* returned as a value or as JSON text, unless LangChain takes it for content
\* blocks, which an empty list, and a list of texts and of dicts with the type of
\* a block, are (README 189, _bridge.py 131-145).
THEOREM EveryReturnArrives == Spec => []ReturnsArrive
<1>1. RecordsInv /\ CrossingInv /\ HandedBackInv => ReturnsArrive
  <2> SUFFICES ASSUME RecordsInv, CrossingInv, HandedBackInv, NEW c \in Calls,
                      Returned(c), ~ IsBlocks(Running(c).value)
               PROVE  got[c] = IF Running(c).value.kind = "json"
                               THEN Running(c).value.items[1]
                               ELSE JsonForm[Running(c).value]
    BY DEF ReturnsArrive, Arrived
  <2>1. Running(c) = request[c]
    BY OwnCode
  <2>2. request[c].value \in Values
    BY RequestsAssumption DEF RecordsInv
  <2>3. got[c] = Extracted(c)
    BY DEF HandedBackInv, HandedBack, Returned
  <2>4. QED
    BY <2>1, <2>2, <2>3, ValueArrives DEF Extracted, Returned
<1>2. QED
  BY <1>1, HandedBackKept, PTL

----------------------------------------------------------------------------
(***************************************************************************)
(* The recursions, kind by kind                                            *)
(***************************************************************************)
Kinds == Scalars \cup Listed \cup {"bytes", "odd", "dict", "object", "pair"}

LEMMA Shapes ==
    ASSUME NEW v \in Values
    PROVE  /\ v.kind \in Kinds /\ HasShape(v)
           /\ v = [kind |-> v.kind, text |-> v.text, items |-> v.items]
           /\ v.kind \in {"null", "int", "str", "bytes", "odd"} => v.items = <<>>
BY ValuesAssumption DEF HasShape, Kinds, Scalars, Listed, IsPair

\* An entry has a key and a value.
LEMMA EntryParts ==
    ASSUME NEW v \in Values, IsPair(v)
    PROVE  /\ DOMAIN v.items = {1, 2} /\ Len(v.items) = 2 /\ v.text = ""
           /\ v.items[1] \in Values /\ ~ IsPair(v.items[1])
           /\ v.items[2] \in Values /\ ~ IsPair(v.items[2])
           /\ Height[v.items[1]] < Height[v] /\ Height[v.items[2]] < Height[v]
<1>1. /\ v.text = "" /\ Len(v.items) = 2 /\ \A p \in Parts(v) : ~ IsPair(p)
  BY Shapes DEF HasShape, IsPair, Listed
<1>2. 1..2 = {1, 2}
  OBVIOUS
<1>3. DOMAIN v.items = {1, 2}
  BY <1>1, <1>2, Items
<1>4. \A i \in {1, 2} : /\ v.items[i] \in Values /\ v.items[i] \in Parts(v)
                        /\ Height[v.items[i]] < Height[v]
  BY <1>3, Items
<1>5. QED
  BY <1>1, <1>3, <1>4

LEMMA DumpsForm ==
    ASSUME NEW v \in Values
    PROVE  Dumps[v] <=>
              \/ v.kind \in Scalars
              \/ /\ v.kind \in {"list", "tuple", "dict"}
                 /\ \A i \in DOMAIN v.items : Dumps[v.items[i]]
              \/ IsPair(v) /\ v.items[1].kind \in Scalars /\ Dumps[v.items[2]]
<1>1. Dumps[v] = DumpsOnce(v, OfItems(v, Dumps))
  BY DumpsValue
<1>2. /\ DOMAIN OfItems(v, Dumps) = DOMAIN v.items
      /\ \A i \in DOMAIN v.items : OfItems(v, Dumps)[i] = Dumps[v.items[i]]
  BY DEF OfItems
<1>3. IsPair(v) => OfItems(v, Dumps)[2] = Dumps[v.items[2]]
  BY <1>2, EntryParts
<1>4. DumpsOnce(v, OfItems(v, Dumps)) <=>
         \/ v.kind \in Scalars
         \/ /\ v.kind \in {"list", "tuple", "dict"}
            /\ \A i \in DOMAIN v.items : OfItems(v, Dumps)[i]
         \/ IsPair(v) /\ v.items[1].kind \in Scalars /\ OfItems(v, Dumps)[2]
  BY <1>2 DEF DumpsOnce, Scalars, IsPair
<1>5. QED
  BY <1>1, <1>2, <1>3, <1>4

LEMMA JsonFormForm ==
    ASSUME NEW v \in Values
    PROVE  LET part == OfItems(v, JsonForm)
           IN  /\ v.kind \in Scalars => JsonForm[v] = v
               /\ v.kind = "tuple" => JsonForm[v] = Node("list", part)
               /\ IsPair(v) => JsonForm[v] = IF IsText(v.items[1])
                                  THEN Node("pair", part)
                                  ELSE Pair(Leaf("str", v.items[1].text), part[2])
               /\ v.kind \in {"list", "dict"} => JsonForm[v] = Node(v.kind, part)
<1> DEFINE part == OfItems(v, JsonForm)
<1> HIDE DEF part
<1>1. JsonForm[v] = JsonFormOnce(v, part)
  BY JsonFormValue DEF part
<1>2. QED
  BY <1>1 DEF JsonFormOnce, Scalars, IsPair, part

LEMMA TaggedForm ==
    ASSUME NEW v \in Values
    PROVE  LET part == OfItems(v, Tagged)
           IN  /\ v.kind \in Scalars => Tagged[v] = v
               /\ v.kind \in DOMAIN TagOf =>
                     Tagged[v] = Named(TagOf[v.kind], Node("list", part))
               /\ v.kind = "bytes" => Tagged[v] = Named("$bytes", Leaf("str", v.text))
               /\ v.kind \in {"list", "pair"} => Tagged[v] = Node(v.kind, part)
               /\ v.kind = "dict" /\ HasTextKeys(v) => Tagged[v] = Node("dict", part)
               /\ v.kind = "dict" /\ ~ HasTextKeys(v) =>
                     Tagged[v] = Named("$dict", Node("list",
                        [i \in DOMAIN part |-> Node("list", part[i].items)]))
               /\ v.kind = "object" =>
                     Tagged[v] = Named("$object", Node("dict",
                        <<Pair(Leaf("str", "name"), Leaf("str", v.text)),
                          Pair(Leaf("str", "attributes"), Node("dict", part))>>))
               /\ v.kind = "odd" => Tagged[v] = Leaf("str", "repr")
<1> DEFINE part == OfItems(v, Tagged)
<1> HIDE DEF part
<1>1. Tagged[v] = TaggedOnce(v, part)
  BY TaggedValue DEF part
<1>2. DOMAIN TagOf = {"tuple", "set", "frozenset"}
  BY DEF TagOf
<1>3. v.kind \in Scalars => Tagged[v] = v
  BY <1>1, <1>2 DEF TaggedOnce, Scalars
<1>4. v.kind \in DOMAIN TagOf =>
         Tagged[v] = Named(TagOf[v.kind], Node("list", part))
  BY <1>1, <1>2 DEF TaggedOnce, Scalars
<1>5. v.kind = "bytes" => Tagged[v] = Named("$bytes", Leaf("str", v.text))
  BY <1>1, <1>2 DEF TaggedOnce, Scalars
<1>6. v.kind \in {"list", "pair"} => Tagged[v] = Node(v.kind, part)
  BY <1>1, <1>2 DEF TaggedOnce, Scalars, Walked
<1>7. v.kind = "dict" /\ HasTextKeys(v) => Tagged[v] = Node("dict", part)
  BY <1>1, <1>2 DEF TaggedOnce, Scalars, Walked
<1>8. v.kind = "dict" /\ ~ HasTextKeys(v) =>
         Tagged[v] = Named("$dict", Node("list",
                        [i \in DOMAIN part |-> Node("list", part[i].items)]))
  BY <1>1, <1>2 DEF TaggedOnce, Scalars
<1>9. v.kind = "object" =>
         Tagged[v] = Named("$object", Node("dict",
                        <<Pair(Leaf("str", "name"), Leaf("str", v.text)),
                          Pair(Leaf("str", "attributes"), Node("dict", part))>>))
  BY <1>1, <1>2 DEF TaggedOnce, Scalars
<1>10. v.kind = "odd" => Tagged[v] = Leaf("str", "repr")
  BY <1>1, <1>2 DEF TaggedOnce, Scalars
<1>11. QED
  BY <1>3, <1>4, <1>5, <1>6, <1>7, <1>8, <1>9, <1>10 DEF part

LEMMA ItemsOf ==
    ASSUME NEW v, NEW f
    PROVE  /\ DOMAIN OfItems(v, f) = DOMAIN v.items
           /\ \A i \in DOMAIN v.items : OfItems(v, f)[i] = f[v.items[i]]
BY DEF OfItems

----------------------------------------------------------------------------
(***************************************************************************)
(* Every result is plain JSON: what is below it is in a set that is closed *)
(* under parts and has plain members only.                                 *)
(***************************************************************************)
PlainNode(p) ==
    /\ p.kind \in Scalars \cup {"list", "tuple", "dict", "pair"}
    /\ p.kind = "pair" => p.items[1].kind \in Scalars

Closed(G) == \A p \in G : PlainNode(p) /\ Parts(p) \subseteq G

Plainly(v) == \E G : v \in G /\ Closed(G)

LevelStep(v, d, level) ==
    IF d = 0 THEN {v} ELSE UNION {Parts(p) : p \in level[d - 1]}

LevelRec == INSTANCE Recursion WITH Step <- LevelStep

LEMMA ClosedIsPlain == ASSUME NEW v, Plainly(v) PROVE PlainJson(v)
<1> DEFINE level == CHOOSE f : LevelRec!Solves(v, 0..Depth, f)
<1>1. LevelRec!LooksBack(v, Depth)
  BY DEF LevelRec!LooksBack, LevelStep
<1>2. LevelRec!Solves(v, 0..Depth, level)
  BY <1>1, DepthAssumption, LevelRec!CountExists
<1>3. Within(v) = UNION {level[d] : d \in 0..Depth}
  BY DEF Within, LevelRec!Solves, LevelStep
<1> HIDE DEF level
<1>4. \A d \in 0..Depth :
         level[d] = IF d = 0 THEN {v} ELSE UNION {Parts(p) : p \in level[d - 1]}
  BY <1>2 DEF LevelRec!Solves, LevelStep
<1>5. PICK G : v \in G /\ Closed(G)
  BY DEF Plainly
<1> DEFINE T == {d \in Nat : d <= Depth => level[d] \subseteq G}
<1>6. 0 \in T
  <2>1. 0 \in 0..Depth
    BY DepthAssumption
  <2>2. level[0] = {v}
    BY <1>4, <2>1
  <2>3. QED
    BY <1>5, <2>2
<1>7. ASSUME NEW d \in Nat, d \in T PROVE d + 1 \in T
  <2> SUFFICES ASSUME d + 1 <= Depth PROVE level[d + 1] \subseteq G
    OBVIOUS
  <2>1. d + 1 \in 0..Depth /\ d + 1 # 0 /\ (d + 1) - 1 = d /\ d <= Depth
    BY DepthAssumption
  <2>2. level[d + 1] = UNION {Parts(p) : p \in level[d]}
    BY <1>4, <2>1
  <2>3. level[d] \subseteq G
    BY <1>7, <2>1
  <2>4. QED
    BY <1>5, <2>2, <2>3 DEF Closed
<1> HIDE DEF T
<1>8. Nat \subseteq T
  BY <1>6, <1>7, LevelRec!Induction
<1>9. \A d \in 0..Depth : level[d] \subseteq G
  BY <1>8 DEF T
<1>10. Within(v) \subseteq G
  BY <1>3, <1>9
<1>11. QED
  BY <1>5, <1>10 DEF PlainJson, Closed, PlainNode

LEMMA PlainParts ==
    ASSUME NEW v, PlainNode(v), \A p \in Parts(v) : Plainly(p)
    PROVE  Plainly(v)
<1> DEFINE Below(p) == CHOOSE G : p \in G /\ Closed(G)
           G == {v} \cup UNION {Below(p) : p \in Parts(v)}
<1>1. \A p \in Parts(v) : p \in Below(p) /\ Closed(Below(p))
  BY DEF Plainly
<1> HIDE DEF Below
<1>2. v \in G /\ Parts(v) \subseteq G
  BY <1>1
<1>3. ASSUME NEW p \in G PROVE PlainNode(p) /\ Parts(p) \subseteq G
  <2>1. CASE p = v
    BY <1>2, <2>1
  <2>2. CASE p # v
    <3>1. PICK q \in Parts(v) : p \in Below(q)
      BY <2>2
    <3>2. PlainNode(p) /\ Parts(p) \subseteq Below(q)
      BY <1>1, <3>1 DEF Closed
    <3>3. QED
      BY <3>2
  <2>3. QED
    BY <2>1, <2>2
<1> HIDE DEF G
<1>4. Closed(G)
  BY <1>3 DEF Closed
<1>5. QED
  BY <1>2, <1>4 DEF Plainly

LEMMA PlainText == ASSUME NEW t PROVE Plainly(Leaf("str", t))
<1>1. PlainNode(Leaf("str", t)) /\ Parts(Leaf("str", t)) = {}
  BY DEF PlainNode, Leaf, Parts, Scalars
<1>2. QED
  BY <1>1, PlainParts

LEMMA PlainContainer ==
    ASSUME NEW kind \in {"list", "dict"}, NEW items,
           \A i \in DOMAIN items : Plainly(items[i])
    PROVE  Plainly(Node(kind, items))
<1> DEFINE v == Node(kind, items)
<1>1. v.kind = kind /\ v.items = items
  BY DEF Node
<1> HIDE DEF v
<1>2. PlainNode(v) /\ \A p \in Parts(v) : Plainly(p)
  BY <1>1 DEF PlainNode, Parts
<1>3. QED
  BY <1>2, PlainParts DEF v

LEMMA PlainPair ==
    ASSUME NEW key, NEW value, Plainly(key), Plainly(value), key.kind \in Scalars
    PROVE  Plainly(Pair(key, value))
<1> DEFINE v == Pair(key, value)
<1>1. v.kind = "pair" /\ v.items = <<key, value>>
  BY DEF Pair, Node
<1> HIDE DEF v
<1>2. PlainNode(v) /\ \A p \in Parts(v) : Plainly(p)
  BY <1>1 DEF PlainNode, Parts
<1>3. QED
  BY <1>2, PlainParts DEF v

LEMMA PlainNamed ==
    ASSUME NEW tag, NEW value, Plainly(value) PROVE Plainly(Named(tag, value))
<1> DEFINE entry == Pair(Leaf("str", tag), value)
           items == <<entry>>
<1>1. Leaf("str", tag).kind \in Scalars
  BY DEF Leaf, Scalars
<1>2. Plainly(entry)
  BY <1>1, PlainText, PlainPair
<1> HIDE DEF entry
<1>3. \A i \in DOMAIN items : Plainly(items[i])
  BY <1>2
<1> HIDE DEF items
<1>4. Plainly(Node("dict", items))
  BY <1>3, PlainContainer
<1>5. QED
  BY <1>4 DEF items, entry, Named

\* What json.dumps accepts
LEMMA DumpedIsPlain == ASSUME NEW v \in Values, Dumps[v] PROVE Plainly(v)
<1> DEFINE G == {p \in Values : Dumps[p]}
<1>1. ASSUME NEW p \in Values, Dumps[p]
      PROVE  PlainNode(p) /\ \A i \in DOMAIN p.items : Dumps[p.items[i]]
  <2>1. CASE p.kind \in Scalars
    <3>1. PlainNode(p)
      BY <2>1 DEF PlainNode, Scalars
    <3>2. CASE p.kind # "json"
      BY <2>1, <3>1, <3>2, Shapes DEF Scalars
    <3>3. CASE p.kind = "json"
      <4>1. \A q \in Parts(p) : Dumps[q]
        BY <3>3, Shapes DEF HasShape, IsPair, Listed
      <4>2. QED
        BY <3>1, <4>1, Items
    <3>4. QED
      BY <3>2, <3>3
  <2>2. CASE /\ p.kind \in {"list", "tuple", "dict"}
             /\ \A i \in DOMAIN p.items : Dumps[p.items[i]]
    BY <2>2 DEF PlainNode
  <2>3. CASE IsPair(p) /\ p.items[1].kind \in Scalars /\ Dumps[p.items[2]]
    <3>1. PlainNode(p)
      BY <2>3 DEF PlainNode, IsPair
    <3>2. DOMAIN p.items = {1, 2} /\ p.items[1] \in Values
      BY <2>3, EntryParts
    <3>3. Dumps[p.items[1]]
      BY <2>3, <3>2, DumpsForm
    <3>4. QED
      BY <2>3, <3>1, <3>2, <3>3
  <2>4. QED
    BY <1>1, <2>1, <2>2, <2>3, DumpsForm
<1>2. \A p \in Values : Parts(p) \subseteq Values
  BY Items DEF Parts
<1>3. Closed(G)
  BY <1>1, <1>2 DEF Closed, Parts
<1>4. QED
  BY <1>3 DEF Plainly

\* An entry with a text for a key
LEMMA TaggedEntry ==
    ASSUME NEW p \in Values, IsPair(p)
    PROVE  /\ Tagged[p] = Pair(Tagged[p.items[1]], Tagged[p.items[2]])
           /\ Tagged[p].items = <<Tagged[p.items[1]], Tagged[p.items[2]]>>
           /\ p.items[1].kind \in {"str", "json"} => Tagged[p.items[1]] = p.items[1]
<1>1. Tagged[p] = Node("pair", OfItems(p, Tagged))
  BY TaggedForm DEF IsPair
<1>2. OfItems(p, Tagged) = <<Tagged[p.items[1]], Tagged[p.items[2]]>>
  <2>1. Len(p.items) = 2 /\ DOMAIN p.items = 1..2
    BY EntryParts, Items
  <2>2. OfItems(p, Tagged) = [i \in 1..2 |-> Tagged[p.items[i]]]
    BY <2>1 DEF OfItems
  <2>3. QED
    BY <2>2
<1>3. p.items[1].kind \in {"str", "json"} => Tagged[p.items[1]] = p.items[1]
  BY EntryParts, TaggedForm DEF Scalars
<1>4. Tagged[p] = Pair(Tagged[p.items[1]], Tagged[p.items[2]])
  BY <1>1, <1>2 DEF Pair
<1>5. \A key, val : Pair(key, val).items = <<key, val>>
  BY DEF Pair, Node
<1>6. QED
  BY <1>3, <1>4, <1>5

LEMMA TaggedIsPlain ==
    ASSUME NEW value \in Values, ~ IsPair(value) PROVE Plainly(Tagged[value])
<1> DEFINE T == {v \in Values : ~ IsPair(v) => Plainly(Tagged[v])}
<1>1. ASSUME NEW v \in Values,
             \A p \in Values : Height[p] < Height[v] => p \in T
      PROVE  v \in T
  <2> SUFFICES ASSUME ~ IsPair(v) PROVE Plainly(Tagged[v])
    OBVIOUS
  <2> DEFINE part == OfItems(v, Tagged)
  <2>1. ASSUME NEW p \in Values, Height[p] < Height[v], ~ IsPair(p)
        PROVE  Plainly(Tagged[p])
    BY <1>1, <2>1
  \* the items of a list, and the keys and values of a dict
  <2>2. ASSUME \A p \in Parts(v) : ~ IsPair(p)
        PROVE  \A i \in DOMAIN part : Plainly(part[i])
    BY <2>1, <2>2, Items, ItemsOf
  <2>3. ASSUME NEW i \in DOMAIN v.items, IsPair(v.items[i])
        PROVE  LET p == v.items[i]
               IN  Plainly(Tagged[p.items[1]]) /\ Plainly(Tagged[p.items[2]])
    <3> DEFINE p == v.items[i]
    <3>1. p \in Values /\ Height[p] < Height[v]
      BY Items
    <3> HIDE DEF p
    <3>2. \A k \in {1, 2} : /\ p.items[k] \in Values /\ ~ IsPair(p.items[k])
                            /\ Height[p.items[k]] < Height[p]
      BY <2>3, <3>1, EntryParts DEF p
    <3>3. \A k \in {1, 2} : Height[p.items[k]] < Height[v]
      <4>1. Height[p] \in Nat /\ Height[v] \in Nat
               /\ \A k \in {1, 2} : Height[p.items[k]] \in Nat
        BY <3>1, <3>2, HeightAssumption
      <4>2. QED
        BY <3>1, <3>2, <4>1
    <3>4. QED
      BY <2>1, <3>2, <3>3 DEF p
  <2>4. ASSUME \A p \in Parts(v) : IsPair(p) /\ p.items[1].kind \in {"str", "json"}
        PROVE  \A i \in DOMAIN part : Plainly(part[i])
    <3> SUFFICES ASSUME NEW i \in DOMAIN v.items PROVE Plainly(Tagged[v.items[i]])
      BY ItemsOf
    <3>1. /\ v.items[i] \in Values /\ IsPair(v.items[i])
          /\ v.items[i].items[1].kind \in {"str", "json"}
      BY <2>4, Items
    <3>2. Plainly(Tagged[v.items[i].items[1]]) /\ Plainly(Tagged[v.items[i].items[2]])
      BY <2>3, <3>1
    <3>3. Tagged[v.items[i].items[1]].kind \in Scalars
      BY <3>1, TaggedEntry DEF Scalars
    <3>4. QED
      BY <3>1, <3>2, <3>3, PlainPair, TaggedEntry
  <2>5. CASE v.kind \in Scalars
    <3>1. Dumps[v]
      BY <2>5, DumpsForm
    <3>2. Tagged[v] = v
      BY <2>5, TaggedForm
    <3>3. QED
      BY <3>1, <3>2, DumpedIsPlain
  <2>6. CASE v.kind \in Listed
    <3>1. \A p \in Parts(v) : ~ IsPair(p)
      BY <2>6, Shapes DEF HasShape, IsPair, Listed
    <3>2. Plainly(Node("list", part))
      BY <2>2, <3>1, PlainContainer
    <3>3. \/ Tagged[v] = Node("list", part)
          \/ Tagged[v] = Named(TagOf[v.kind], Node("list", part))
      BY <2>6, TaggedForm DEF Listed, TagOf
    <3>4. QED
      BY <3>2, <3>3, PlainNamed
  <2>7. CASE v.kind = "bytes"
    <3>1. Tagged[v] = Named("$bytes", Leaf("str", v.text))
      BY <2>7, TaggedForm
    <3>2. QED
      BY <3>1, PlainNamed, PlainText
  <2>8. CASE v.kind = "odd"
    BY <2>8, TaggedForm, PlainText
  <2>9. CASE v.kind = "dict"
    <3>1. \A p \in Parts(v) : IsPair(p)
      BY <2>9, Shapes DEF HasShape, IsPair, Listed
    <3>2. CASE HasTextKeys(v)
      <4>1. \A i \in DOMAIN part : Plainly(part[i])
        BY <2>4, <3>1, <3>2 DEF HasTextKeys
      <4>2. QED
        BY <2>9, <3>2, <4>1, TaggedForm, PlainContainer
    <3>3. CASE ~ HasTextKeys(v)
      <4> DEFINE lists == [i \in DOMAIN part |-> Node("list", part[i].items)]
      <4>1. ASSUME NEW i \in DOMAIN v.items PROVE Plainly(lists[i])
        <5> DEFINE p == v.items[i]
                   items == <<Tagged[p.items[1]], Tagged[p.items[2]]>>
        <5>1. p \in Values /\ IsPair(p)
          BY <3>1, Items
        <5>2. lists[i] = Node("list", items)
          BY <5>1, ItemsOf, TaggedEntry
        <5>3. Plainly(Tagged[p.items[1]]) /\ Plainly(Tagged[p.items[2]])
          BY <2>3, <5>1
        <5> HIDE DEF p
        <5>4. \A k \in DOMAIN items : Plainly(items[k])
          BY <5>3
        <5> HIDE DEF items
        <5>5. QED
          BY <5>2, <5>4, PlainContainer
      <4>2. DOMAIN lists = DOMAIN v.items
        BY ItemsOf
      <4>3. Tagged[v] = Named("$dict", Node("list", lists))
        BY <2>9, <3>3, TaggedForm
      <4> HIDE DEF lists
      <4>4. Plainly(Node("list", lists))
        BY <4>1, <4>2, PlainContainer
      <4>5. QED
        BY <4>3, <4>4, PlainNamed
    <3>4. QED
      BY <3>2, <3>3
  <2>10. CASE v.kind = "object"
    <3>1. \A p \in Parts(v) : IsPair(p) /\ p.items[1].kind \in {"str", "json"}
      BY <2>10, Shapes DEF HasShape, IsPair, Listed
    <3>2. Plainly(Node("dict", part))
      BY <2>4, <3>1, PlainContainer
    <3> DEFINE name == Pair(Leaf("str", "name"), Leaf("str", v.text))
               attributes == Pair(Leaf("str", "attributes"), Node("dict", part))
               items == <<name, attributes>>
    <3>3. \A t : Leaf("str", t).kind \in Scalars
      BY DEF Leaf, Scalars
    <3>4. Plainly(name)
      BY <3>3, PlainPair, PlainText
    <3>5. Plainly(attributes)
      BY <3>2, <3>3, PlainPair, PlainText
    <3>6. Tagged[v] = Named("$object", Node("dict", items))
      BY <2>10, TaggedForm
    <3> HIDE DEF name, attributes
    <3>7. \A i \in DOMAIN items : Plainly(items[i])
      BY <3>4, <3>5
    <3> HIDE DEF items
    <3>8. Plainly(Node("dict", items))
      BY <3>7, PlainContainer
    <3>9. QED
      BY <3>6, <3>8, PlainNamed
  <2>11. QED
    BY <2>5, <2>6, <2>7, <2>8, <2>9, <2>10, Shapes DEF Kinds, IsPair
<1> HIDE DEF T
<1>2. Values \subseteq T
  BY <1>1, HeightAssumption, TaggedRec!HeightInduction
<1>3. QED
  BY <1>2 DEF T

----------------------------------------------------------------------------
(***************************************************************************)
(* A tagged result is that of one value.  First, which values are tagged   *)
(* with a name, and that no other is taken for one.                        *)
(***************************************************************************)
Encoded(v) ==
    \/ v.kind \in DOMAIN TagOf \cup {"bytes", "object"}
    \/ v.kind = "dict" /\ ~ HasTextKeys(v)

TagFor(v) == IF v.kind \in DOMAIN TagOf THEN TagOf[v.kind]
             ELSE IF v.kind = "bytes" THEN "$bytes"
             ELSE IF v.kind = "dict" THEN "$dict"
             ELSE "$object"

LEMMA NodesDiffer ==
    /\ \A k, l, s, t : Node(k, s) = Node(l, t) => k = l /\ s = t
    /\ \A s, t : Leaf("str", s) = Leaf("str", t) => s = t
    /\ \A k, l, s, t : Pair(k, s) = Pair(l, t) => k = l /\ s = t
    /\ \A s, t, m, n : Named(s, m) = Named(t, n) => s = t /\ m = n
    /\ \A t, n : /\ Named(t, n).kind = "dict"
                 /\ Named(t, n).items = <<Pair(Leaf("str", t), n)>>
<1>1. \A k, l, s, t : Node(k, s) = Node(l, t) => k = l /\ s = t
  <2> SUFFICES ASSUME NEW k, NEW l, NEW s, NEW t, Node(k, s) = Node(l, t)
               PROVE  k = l /\ s = t
    OBVIOUS
  <2>1. Node(k, s).kind = k /\ Node(k, s).items = s
    BY DEF Node
  <2>2. Node(l, t).kind = l /\ Node(l, t).items = t
    BY DEF Node
  <2>3. QED
    BY <2>1, <2>2
<1>2. \A s, t : Leaf("str", s) = Leaf("str", t) => s = t
  <2>1. \A s : Leaf("str", s).text = s
    BY DEF Leaf
  <2>2. QED
    BY <2>1
<1>3. \A k, l, s, t : Pair(k, s) = Pair(l, t) => k = l /\ s = t
  <2> SUFFICES ASSUME NEW k, NEW l, NEW s, NEW t, Pair(k, s) = Pair(l, t)
               PROVE  k = l /\ s = t
    OBVIOUS
  <2>1. <<k, s>> = <<l, t>>
    BY <1>1 DEF Pair
  <2>2. QED
    BY <2>1
<1>4. ASSUME NEW s, NEW t, NEW m, NEW n, Named(s, m) = Named(t, n)
      PROVE  s = t /\ m = n
  <2>1. <<Pair(Leaf("str", s), m)>> = <<Pair(Leaf("str", t), n)>>
    BY <1>1, <1>4 DEF Named
  <2>2. Pair(Leaf("str", s), m) = Pair(Leaf("str", t), n)
    BY <2>1
  <2>3. QED
    BY <1>2, <1>3, <2>2
<1>5. \A t, n : /\ Named(t, n).kind = "dict"
                /\ Named(t, n).items = <<Pair(Leaf("str", t), n)>>
  BY DEF Named, Node
<1>6. QED
  BY <1>1, <1>2, <1>3, <1>4, <1>5

LEMMA Unambiguous ==
    ASSUME NEW v \in Values, ~ Ambiguous[v]
    PROVE  /\ v.kind # "odd" /\ ~ HasTagKey(v)
           /\ \A i \in DOMAIN v.items : ~ Ambiguous[v.items[i]]
BY AmbiguousValue

\* A dict whose one entry has a tag for its text is ambiguous.
LEMMA OneTagged ==
    ASSUME NEW v \in Values, v.kind = "dict", DOMAIN v.items = {1},
           v.items[1].items[1].kind = "str", v.items[1].items[1].text \in Tags
    PROVE  Ambiguous[v]
<1>1. v.items[1] \in Parts(v)
  BY DEF Parts
<1>2. QED
  BY <1>1, AmbiguousValue DEF HasTagKey

LEMMA TextIsNotTag ==
    ASSUME NEW v \in Values, ~ Ambiguous[v], v.kind = "dict", HasTextKeys(v),
           NEW tag \in Tags, NEW value
    PROVE  Tagged[v] # Named(tag, value)
<1> SUFFICES ASSUME Tagged[v] = Named(tag, value) PROVE FALSE
  OBVIOUS
<1>1. OfItems(v, Tagged) = <<Pair(Leaf("str", tag), value)>>
  <2>1. Node("dict", OfItems(v, Tagged)) = Named(tag, value)
    BY TaggedForm
  <2>2. QED
    BY <2>1, NodesDiffer DEF Named
<1>2. DOMAIN v.items = {1} /\ Tagged[v.items[1]] = Pair(Leaf("str", tag), value)
  <2>1. DOMAIN OfItems(v, Tagged) = {1}
           /\ OfItems(v, Tagged)[1] = Pair(Leaf("str", tag), value)
    BY <1>1
  <2>2. QED
    BY <2>1, ItemsOf
<1> DEFINE p == v.items[1]
<1>3. p \in Values /\ p \in Parts(v)
  BY <1>2, Items
<1>4. IsPair(p) /\ p.items[1].kind \in {"str", "json"}
  BY <1>3, Shapes DEF HasShape, HasTextKeys, Listed
<1>5. p.items[1] = Leaf("str", tag)
  BY <1>2, <1>3, <1>4, TaggedEntry, NodesDiffer
<1>6. p.items[1].kind = "str" /\ p.items[1].text \in Tags
  BY <1>5 DEF Leaf
<1>7. QED
  BY <1>2, <1>6, OneTagged

LEMMA JsonIsNotTag ==
    ASSUME NEW v \in Values, ~ Ambiguous[v], Dumps[v], NEW tag \in Tags, NEW value
    PROVE  JsonForm[v] # Named(tag, value)
<1> SUFFICES ASSUME JsonForm[v] = Named(tag, value) PROVE FALSE
  OBVIOUS
<1>1. v.kind = "dict"
  <2>1. JsonForm[v].kind = "dict"
    BY NodesDiffer
  <2>2. v.kind \in Scalars => JsonForm[v].kind \in Scalars
    BY JsonFormForm
  <2>3. v.kind \in {"list", "tuple"} => JsonForm[v].kind = "list"
    <3>1. v.kind \in {"list", "tuple"} =>
             JsonForm[v] = Node("list", OfItems(v, JsonForm))
      BY JsonFormForm
    <3>2. \A s : Node("list", s).kind = "list"
      BY DEF Node
    <3>3. QED
      BY <3>1, <3>2
  <2>4. IsPair(v) => JsonForm[v].kind = "pair"
    <3>1. /\ \A s : Node("pair", s).kind = "pair"
          /\ \A k, s : Pair(k, s).kind = "pair"
      BY DEF Node, Pair
    <3>2. IsPair(v) => \/ JsonForm[v] = Node("pair", OfItems(v, JsonForm))
                       \/ \E k, s : JsonForm[v] = Pair(k, s)
      BY JsonFormForm
    <3>3. QED
      BY <3>1, <3>2
  <2>5. QED
    BY <2>1, <2>2, <2>3, <2>4, DumpsForm DEF Scalars
<1>2. OfItems(v, JsonForm) = <<Pair(Leaf("str", tag), value)>>
  <2>1. Node("dict", OfItems(v, JsonForm)) = Named(tag, value)
    BY <1>1, JsonFormForm
  <2>2. QED
    BY <2>1, NodesDiffer DEF Named
<1>3. DOMAIN v.items = {1} /\ JsonForm[v.items[1]] = Pair(Leaf("str", tag), value)
  <2>1. DOMAIN OfItems(v, JsonForm) = {1}
           /\ OfItems(v, JsonForm)[1] = Pair(Leaf("str", tag), value)
    BY <1>2
  <2>2. QED
    BY <2>1, ItemsOf
<1> DEFINE p == v.items[1]
           key == p.items[1]
<1>4. p \in Values /\ p \in Parts(v) /\ Dumps[p]
  BY <1>1, <1>3, Items, DumpsForm DEF Scalars, IsPair
<1>5. IsPair(p)
  BY <1>1, <1>4, Shapes DEF HasShape, Listed, IsPair
<1>6. key \in Values /\ key.kind \in Scalars
  BY <1>4, <1>5, EntryParts, DumpsForm DEF IsPair, Scalars
<1>7. CASE IsText(key)
  <2>1. Node("pair", OfItems(p, JsonForm)) = Pair(Leaf("str", tag), value)
    BY <1>3, <1>4, <1>5, <1>7, JsonFormForm
  <2>2. OfItems(p, JsonForm) = <<Leaf("str", tag), value>>
    BY <2>1, NodesDiffer DEF Pair
  <2>3. JsonForm[key] = Leaf("str", tag)
    <3>1. 1 \in DOMAIN p.items
      BY <1>4, <1>5, EntryParts
    <3>2. OfItems(p, JsonForm)[1] = JsonForm[key]
      BY <3>1, ItemsOf
    <3>3. QED
      BY <2>2, <3>2
  <2>4. key = Leaf("str", tag)
    BY <1>6, <2>3, JsonFormForm
  <2>5. key.kind = "str" /\ key.text \in Tags
    BY <2>4 DEF Leaf
  <2>6. QED
    BY <1>1, <1>3, <2>5, OneTagged
<1>8. CASE ~ IsText(key)
  <2>1. Leaf("str", key.text) = Leaf("str", tag)
    BY <1>3, <1>4, <1>5, <1>8, JsonFormForm, NodesDiffer
  <2>2. key.text \in Tags
    BY <2>1, NodesDiffer
  <2>3. key.kind \in {"null", "int"}
    BY <1>6, <1>8 DEF Scalars, IsText
  <2>4. key.text \notin Tags
    BY <1>6, <2>3, Shapes DEF HasShape, Listed
  <2>5. QED
    BY <2>2, <2>4
<1>9. QED
  BY <1>7, <1>8

\* Names for all that JSON has no kind for
LEMMA EncodedForm ==
    ASSUME NEW v \in Values, v.kind # "odd"
    PROVE  /\ Encoded(v) => /\ TagFor(v) \in Tags
                            /\ \E value : Tagged[v] = Named(TagFor(v), value)
           /\ ~ Encoded(v) => Tagged[v].kind = v.kind
<1>1. DOMAIN TagOf = {"tuple", "set", "frozenset"}
         /\ \A k \in DOMAIN TagOf : TagOf[k] \in Tags
  BY DEF TagOf, Tags
<1>2. ASSUME Encoded(v)
      PROVE  TagFor(v) \in Tags /\ \E value : Tagged[v] = Named(TagFor(v), value)
  <2>1. CASE v.kind \in DOMAIN TagOf
    BY <1>1, <2>1, TaggedForm DEF TagFor
  <2>2. CASE v.kind = "bytes"
    BY <1>1, <2>2, TaggedForm DEF TagFor, Tags
  <2>3. CASE v.kind = "object"
    BY <1>1, <2>3, TaggedForm DEF TagFor, Tags
  <2>4. CASE v.kind = "dict" /\ ~ HasTextKeys(v)
    BY <1>1, <2>4, TaggedForm DEF TagFor, Tags
  <2>5. QED
    BY <1>2, <2>1, <2>2, <2>3, <2>4 DEF Encoded
<1>3. ASSUME ~ Encoded(v) PROVE Tagged[v].kind = v.kind
  <2>1. \A k, s : Node(k, s).kind = k
    BY DEF Node
  <2>2. CASE v.kind \in Scalars
    BY <2>2, TaggedForm
  <2>3. CASE v.kind \in {"list", "pair"}
    <3>1. Tagged[v] = Node(v.kind, OfItems(v, Tagged))
      BY <2>3, TaggedForm
    <3>2. QED
      BY <2>1, <3>1
  <2>4. CASE v.kind = "dict" /\ HasTextKeys(v)
    <3>1. Tagged[v] = Node("dict", OfItems(v, Tagged))
      BY <2>4, TaggedForm
    <3>2. QED
      BY <2>1, <2>4, <3>1
  <2>5. QED
    BY <1>1, <1>3, <2>2, <2>3, <2>4, Shapes DEF Encoded, Kinds, Listed
<1>4. QED
  BY <1>2, <1>3

LEMMA SameKind ==
    ASSUME NEW v \in Values, NEW w \in Values, ~ Ambiguous[v], ~ Ambiguous[w],
           Tagged[w] = Tagged[v]
    PROVE  w.kind = v.kind /\ (Encoded(w) <=> Encoded(v))
<1>1. v.kind # "odd" /\ w.kind # "odd"
  BY Unambiguous
<1>2. \A u \in {v, w} : ~ Encoded(u) =>
         /\ Tagged[u].kind = u.kind
         /\ \A tag \in Tags : \A value : Tagged[u] # Named(tag, value)
  <2> SUFFICES ASSUME NEW u \in {v, w}, ~ Encoded(u)
               PROVE  /\ Tagged[u].kind = u.kind
                      /\ \A tag \in Tags : \A value : Tagged[u] # Named(tag, value)
    OBVIOUS
  <2>1. u \in Values /\ ~ Ambiguous[u] /\ Tagged[u].kind = u.kind
    BY <1>1, EncodedForm
  <2>2. CASE u.kind # "dict"
    BY <2>1, <2>2, NodesDiffer
  <2>3. CASE u.kind = "dict"
    BY <2>1, <2>3, TextIsNotTag DEF Encoded
  <2>4. QED
    BY <2>1, <2>2, <2>3
<1>3. CASE ~ Encoded(v) /\ ~ Encoded(w)
  BY <1>2, <1>3
<1>4. CASE ~ (Encoded(v) <=> Encoded(w))
  <2>1. PICK u \in {v, w}, t \in {v, w} : Encoded(u) /\ ~ Encoded(t)
    BY <1>4
  <2>2. \E value : Tagged[u] = Named(TagFor(u), value) /\ TagFor(u) \in Tags
    BY <1>1, <2>1, EncodedForm
  <2>3. QED
    BY <1>2, <2>1, <2>2
<1>5. CASE Encoded(v) /\ Encoded(w)
  <2>1. TagFor(w) = TagFor(v)
    BY <1>1, <1>5, EncodedForm, NodesDiffer
  <2>2. QED
    BY <1>5, <2>1 DEF Encoded, TagFor, TagOf
<1>6. QED
  BY <1>3, <1>4, <1>5

----------------------------------------------------------------------------
\* Equal parts, tagged, at equal places
SameParts(v, w) ==
    /\ DOMAIN w.items = DOMAIN v.items
    /\ \A i \in DOMAIN v.items : Tagged[w.items[i]] = Tagged[v.items[i]]

LEMMA SameItemsOf ==
    ASSUME NEW v, NEW w, OfItems(w, Tagged) = OfItems(v, Tagged)
    PROVE  SameParts(v, w)
<1>1. DOMAIN w.items = DOMAIN v.items
  BY ItemsOf
<1>2. ASSUME NEW i \in DOMAIN v.items PROVE Tagged[w.items[i]] = Tagged[v.items[i]]
  <2>1. OfItems(w, Tagged)[i] = OfItems(v, Tagged)[i]
    OBVIOUS
  <2>2. QED
    BY <1>1, <2>1, ItemsOf
<1>3. QED
  BY <1>1, <1>2 DEF SameParts

LEMMA SameBody ==
    ASSUME NEW v \in Values, NEW w \in Values, ~ Ambiguous[v], ~ Ambiguous[w],
           Tagged[w] = Tagged[v]
    PROVE  w = v \/ (w.text = v.text /\ SameParts(v, w))
<1> DEFINE vs == OfItems(v, Tagged)
           ws == OfItems(w, Tagged)
<1>1. w.kind = v.kind /\ (Encoded(w) <=> Encoded(v)) /\ v.kind # "odd"
  BY SameKind, Unambiguous
<1>2. v.kind \in Listed \cup {"dict", "pair"} => w.text = v.text
  BY <1>1, Shapes DEF HasShape, Listed
<1>3. DOMAIN TagOf = {"tuple", "set", "frozenset"}
  BY DEF TagOf
<1>4. CASE v.kind \in Scalars
  BY <1>1, <1>4, TaggedForm
<1>5. CASE v.kind \in {"list", "pair"}
  <2>1. Node(v.kind, ws) = Node(v.kind, vs)
    BY <1>1, <1>5, TaggedForm
  <2>2. ws = vs
    BY <2>1, NodesDiffer
  <2>3. QED
    BY <1>2, <1>5, <2>2, SameItemsOf DEF Listed
<1>6. CASE v.kind \in DOMAIN TagOf
  <2>1. Named(TagOf[v.kind], Node("list", ws)) = Named(TagOf[v.kind], Node("list", vs))
    BY <1>1, <1>6, TaggedForm
  <2>2. Node("list", ws) = Node("list", vs)
    BY <2>1, NodesDiffer
  <2>3. ws = vs
    BY <2>2, NodesDiffer
  <2>4. QED
    BY <1>2, <1>3, <1>6, <2>3, SameItemsOf DEF Listed
<1>7. CASE v.kind = "bytes"
  <2>1. Named("$bytes", Leaf("str", w.text)) = Named("$bytes", Leaf("str", v.text))
    BY <1>1, <1>7, TaggedForm
  <2>2. w.text = v.text
    BY <2>1, NodesDiffer
  <2>3. w.items = <<>> /\ v.items = <<>>
    BY <1>1, <1>7, Shapes
  <2>4. QED
    BY <1>1, <2>2, <2>3, Shapes
<1>8. CASE v.kind = "dict" /\ HasTextKeys(v)
  <2>1. HasTextKeys(w)
    BY <1>1, <1>3, <1>8 DEF Encoded
  <2>2. Node("dict", ws) = Node("dict", vs)
    BY <1>1, <1>8, <2>1, TaggedForm
  <2>3. ws = vs
    BY <2>2, NodesDiffer
  <2>4. QED
    BY <1>2, <1>8, <2>3, SameItemsOf
<1>9. CASE v.kind = "dict" /\ ~ HasTextKeys(v)
  <2> DEFINE Lists(part) == [i \in DOMAIN part |-> Node("list", part[i].items)]
  <2>1. ~ HasTextKeys(w)
    BY <1>1, <1>3, <1>9 DEF Encoded
  <2>2. Named("$dict", Node("list", Lists(ws))) = Named("$dict", Node("list", Lists(vs)))
    BY <1>1, <1>9, <2>1, TaggedForm
  <2>3. Lists(ws) = Lists(vs)
    <3> HIDE DEF Lists
    <3>1. Node("list", Lists(ws)) = Node("list", Lists(vs))
      BY <2>2, NodesDiffer
    <3>2. QED
      BY <3>1, NodesDiffer
  <2>4. DOMAIN w.items = DOMAIN v.items
    <3>1. DOMAIN Lists(ws) = DOMAIN w.items /\ DOMAIN Lists(vs) = DOMAIN v.items
      BY ItemsOf
    <3>2. QED
      BY <2>3, <3>1
  <2>5. ASSUME NEW i \in DOMAIN v.items PROVE Tagged[w.items[i]] = Tagged[v.items[i]]
    <3> DEFINE p == v.items[i]
               q == w.items[i]
    <3>1. p \in Values /\ IsPair(p) /\ q \in Values /\ IsPair(q)
      <4>1. p \in Values /\ p \in Parts(v) /\ q \in Values /\ q \in Parts(w)
        BY <2>4, Items
      <4>2. QED
        BY <1>1, <1>9, <4>1, Shapes DEF HasShape, Listed, IsPair
    <3>2. vs[i] = Tagged[p] /\ ws[i] = Tagged[q]
      BY <2>4, ItemsOf
    <3>3. Node("list", Tagged[q].items) = Node("list", Tagged[p].items)
      <4>1. i \in DOMAIN vs /\ i \in DOMAIN ws
        BY <2>4, ItemsOf
      <4>2. /\ Lists(vs)[i] = Node("list", vs[i].items)
            /\ Lists(ws)[i] = Node("list", ws[i].items)
        BY <4>1
      <4>3. Lists(ws)[i] = Lists(vs)[i]
        BY <2>3
      <4>4. QED
        BY <3>2, <4>2, <4>3
    <3>4. Tagged[q].items = Tagged[p].items
      BY <3>3, NodesDiffer
    <3> HIDE DEF p, q
    <3>5. /\ Tagged[q.items[1]] = Tagged[p.items[1]]
          /\ Tagged[q.items[2]] = Tagged[p.items[2]]
      <4>1. <<Tagged[q.items[1]], Tagged[q.items[2]]>>
               = <<Tagged[p.items[1]], Tagged[p.items[2]]>>
        BY <3>1, <3>4, TaggedEntry
      <4>2. QED
        BY <4>1
    <3>6. QED
      BY <3>1, <3>5, TaggedEntry DEF p, q
  <2>6. QED
    BY <1>2, <1>9, <2>4, <2>5 DEF SameParts
<1>10. CASE v.kind = "object"
  <2> DEFINE Name(u) == Pair(Leaf("str", "name"), Leaf("str", u.text))
             Attributes(part) == Pair(Leaf("str", "attributes"), Node("dict", part))
  <2>1. Named("$object", Node("dict", <<Name(w), Attributes(ws)>>))
           = Named("$object", Node("dict", <<Name(v), Attributes(vs)>>))
    BY <1>1, <1>10, TaggedForm
  <2> HIDE DEF Name, Attributes
  <2>2. Node("dict", <<Name(w), Attributes(ws)>>)
           = Node("dict", <<Name(v), Attributes(vs)>>)
    BY <2>1, NodesDiffer
  <2>3. <<Name(w), Attributes(ws)>> = <<Name(v), Attributes(vs)>>
    BY <2>2, NodesDiffer
  <2>4. Name(w) = Name(v) /\ Attributes(ws) = Attributes(vs)
    BY <2>3
  <2>5. w.text = v.text
    <3>1. Leaf("str", w.text) = Leaf("str", v.text)
      BY <2>4, NodesDiffer DEF Name
    <3>2. QED
      BY <3>1, NodesDiffer
  <2>6. ws = vs
    <3>1. Node("dict", ws) = Node("dict", vs)
      BY <2>4, NodesDiffer DEF Attributes
    <3>2. QED
      BY <3>1, NodesDiffer
  <2>7. QED
    BY <2>5, <2>6, SameItemsOf
<1>11. QED
  BY <1>1, <1>3, <1>4, <1>5, <1>6, <1>7, <1>8, <1>9, <1>10, Shapes DEF Kinds, Listed

----------------------------------------------------------------------------
\* Values that differ are tagged differently.
LEMMA TaggedApart ==
    ASSUME NEW v \in Values, NEW w \in Values, ~ Ambiguous[v], ~ Ambiguous[w],
           Tagged[w] = Tagged[v]
    PROVE  w = v
<1> DEFINE T == {x \in Values : \A y \in Values :
                    ~ Ambiguous[x] /\ ~ Ambiguous[y] /\ Tagged[y] = Tagged[x]
                       => y = x}
<1>1. ASSUME NEW x \in Values, \A p \in Values : Height[p] < Height[x] => p \in T
      PROVE  x \in T
  <2> SUFFICES ASSUME NEW y \in Values, ~ Ambiguous[x], ~ Ambiguous[y],
                      Tagged[y] = Tagged[x]
               PROVE  y = x
    OBVIOUS
  <2>1. CASE y.text = x.text /\ SameParts(x, y)
    <3>1. y.kind = x.kind
      BY SameKind
    <3>2. ASSUME NEW i \in DOMAIN x.items PROVE y.items[i] = x.items[i]
      <4>1. i \in DOMAIN y.items /\ Tagged[y.items[i]] = Tagged[x.items[i]]
        BY <2>1 DEF SameParts
      <4>2. /\ x.items[i] \in T /\ ~ Ambiguous[x.items[i]]
            /\ y.items[i] \in Values /\ ~ Ambiguous[y.items[i]]
        BY <1>1, <4>1, Items, Unambiguous
      <4>3. QED
        BY <4>1, <4>2
    <3>3. y.items = x.items
      <4>1. x.items \in Seq(Values) /\ y.items \in Seq(Values)
        BY Items
      <4>2. DOMAIN y.items = DOMAIN x.items
        BY <2>1 DEF SameParts
      <4>3. QED
        BY <3>2, <4>1, <4>2
    <3>4. QED
      BY <2>1, <3>1, <3>3, Shapes
  <2>2. QED
    BY <2>1, SameBody
<1> HIDE DEF T
<1>2. Values \subseteq T
  BY <1>1, HeightAssumption, TaggedRec!HeightInduction
<1>3. QED
  BY <1>2 DEF T

\* What is not written as JSON untagged is not tagged as what is.
LEMMA JsonApart ==
    ASSUME NEW v \in Values, NEW w \in Values, ~ Ambiguous[v], ~ Ambiguous[w],
           Dumps[w], JsonForm[w] = Tagged[v]
    PROVE  Dumps[v]
<1> DEFINE T == {x \in Values : \A y \in Values :
                    /\ ~ Ambiguous[x] /\ ~ Ambiguous[y]
                    /\ Dumps[y] /\ JsonForm[y] = Tagged[x]
                    => Dumps[x]}
<1>1. ASSUME NEW x \in Values, \A p \in Values : Height[p] < Height[x] => p \in T
      PROVE  x \in T
  <2> SUFFICES ASSUME NEW y \in Values, ~ Ambiguous[x], ~ Ambiguous[y],
                      Dumps[y], JsonForm[y] = Tagged[x]
               PROVE  Dumps[x]
    OBVIOUS
  <2>1. x.kind # "odd" /\ ~ Encoded(x)
    BY Unambiguous, EncodedForm, JsonIsNotTag
  <2>2. JsonForm[y].kind = x.kind
    BY <2>1, EncodedForm
  <2>3. /\ y.kind \in Scalars => x.kind \in Scalars
        /\ y.kind \in {"list", "tuple"} =>
              x.kind = "list" /\ JsonForm[y] = Node("list", OfItems(y, JsonForm))
        /\ y.kind = "dict" =>
              x.kind = "dict" /\ JsonForm[y] = Node("dict", OfItems(y, JsonForm))
        /\ IsPair(y) => IsPair(x)
    <3>1. /\ \A k, s : Node(k, s).kind = k
          /\ \A k, s : Pair(k, s).kind = "pair"
      BY DEF Node, Pair
    <3>2. y.kind \in Scalars => x.kind \in Scalars
      BY <2>2, JsonFormForm
    <3>3. y.kind \in {"list", "tuple"} =>
             JsonForm[y] = Node("list", OfItems(y, JsonForm))
      BY JsonFormForm
    <3>4. y.kind = "dict" => JsonForm[y] = Node("dict", OfItems(y, JsonForm))
      BY JsonFormForm
    <3>5. IsPair(y) => \/ JsonForm[y] = Node("pair", OfItems(y, JsonForm))
                       \/ \E k, s : JsonForm[y] = Pair(k, s)
      BY JsonFormForm
    <3>6. QED
      BY <2>2, <3>1, <3>2, <3>3, <3>4, <3>5 DEF IsPair
  <2>4. CASE y.kind \in Scalars
    BY <2>3, <2>4, DumpsForm
  <2>5. CASE y.kind \in {"list", "tuple", "dict"}
    <3>1. /\ x.kind \in {"list", "dict"}
          /\ JsonForm[y] = Node(x.kind, OfItems(y, JsonForm))
          /\ \A i \in DOMAIN y.items : Dumps[y.items[i]]
      BY <2>3, <2>5, DumpsForm DEF Scalars, IsPair
    <3>2. Tagged[x] = Node(x.kind, OfItems(x, Tagged))
      BY <2>1, <3>1, TaggedForm DEF Encoded
    <3>3. OfItems(y, JsonForm) = OfItems(x, Tagged)
      <4>1. Node(x.kind, OfItems(y, JsonForm)) = Node(x.kind, OfItems(x, Tagged))
        BY <3>1, <3>2
      <4>2. QED
        BY <4>1, NodesDiffer
    <3>4. ASSUME NEW i \in DOMAIN x.items PROVE Dumps[x.items[i]]
      <4>1. i \in DOMAIN y.items /\ JsonForm[y.items[i]] = Tagged[x.items[i]]
        <5>1. DOMAIN OfItems(y, JsonForm) = DOMAIN y.items
                 /\ DOMAIN OfItems(x, Tagged) = DOMAIN x.items
          BY ItemsOf
        <5>2. i \in DOMAIN y.items
          BY <3>3, <5>1
        <5>3. OfItems(y, JsonForm)[i] = JsonForm[y.items[i]]
                 /\ OfItems(x, Tagged)[i] = Tagged[x.items[i]]
          BY <5>2, ItemsOf
        <5>4. QED
          BY <3>3, <5>2, <5>3
      <4>2. /\ x.items[i] \in T /\ ~ Ambiguous[x.items[i]]
            /\ y.items[i] \in Values /\ ~ Ambiguous[y.items[i]]
        BY <1>1, <4>1, Items, Unambiguous
      <4>3. QED
        BY <3>1, <4>1, <4>2
    <3>5. QED
      BY <3>1, <3>4, DumpsForm
  <2>6. CASE IsPair(y)
    <3>1. IsPair(x) /\ y.items[1].kind \in Scalars /\ Dumps[y.items[2]]
      BY <2>3, <2>6, DumpsForm DEF IsPair, Scalars
    <3>2. \A p \in {x, y} : /\ 1 \in DOMAIN p.items /\ 2 \in DOMAIN p.items
                            /\ p.items[1] \in Values /\ p.items[2] \in Values
      BY <2>6, <3>1, EntryParts
    <3>3. \A p \in {x, y} : ~ Ambiguous[p.items[1]] /\ ~ Ambiguous[p.items[2]]
      BY <3>2, Unambiguous
    <3>4. Tagged[x] = Pair(Tagged[x.items[1]], Tagged[x.items[2]])
      BY <3>1, TaggedEntry
    <3>5. \E key : key.kind \in Scalars /\ JsonForm[y] = Pair(key, JsonForm[y.items[2]])
      <4>1. CASE IsText(y.items[1])
        <5>1. /\ JsonForm[y] = Node("pair", OfItems(y, JsonForm))
              /\ JsonForm[y.items[1]] = y.items[1]
          BY <2>6, <3>1, <3>2, <4>1, JsonFormForm
        <5>2. OfItems(y, JsonForm) = <<y.items[1], JsonForm[y.items[2]]>>
          <6>1. DOMAIN y.items = 1..2
            BY <2>6, EntryParts, Items
          <6>2. OfItems(y, JsonForm) = [i \in 1..2 |-> JsonForm[y.items[i]]]
            BY <6>1 DEF OfItems
          <6>3. QED
            BY <5>1, <6>2
        <5>3. JsonForm[y] = Pair(y.items[1], JsonForm[y.items[2]])
          BY <5>1, <5>2 DEF Pair
        <5>4. QED
          BY <3>1, <5>3
      <4>2. CASE ~ IsText(y.items[1])
        <5> DEFINE key == Leaf("str", y.items[1].text)
        <5>1. JsonForm[y] = Pair(key, OfItems(y, JsonForm)[2])
          BY <2>6, <4>2, JsonFormForm
        <5>2. OfItems(y, JsonForm)[2] = JsonForm[y.items[2]]
          BY <3>2, ItemsOf
        <5>3. key.kind \in Scalars
          BY DEF Leaf, Scalars
        <5>4. QED
          BY <5>1, <5>2, <5>3
      <4>3. QED
        BY <4>1, <4>2
    <3>6. Tagged[x.items[1]].kind \in Scalars /\ Tagged[x.items[2]] = JsonForm[y.items[2]]
      BY <3>4, <3>5, NodesDiffer
    <3>7. x.items[1].kind \in Scalars
      <4>1. x.items[1].kind # "odd"
        BY <3>2, <3>3, Unambiguous
      <4>2. CASE Encoded(x.items[1])
        BY <3>2, <3>6, <4>1, <4>2, EncodedForm, NodesDiffer DEF Scalars
      <4>3. CASE ~ Encoded(x.items[1])
        BY <3>2, <3>6, <4>1, <4>3, EncodedForm
      <4>4. QED
        BY <4>2, <4>3
    <3>8. x.items[2] \in T
      BY <1>1, <3>1, EntryParts
    <3>9. Dumps[x.items[2]]
      BY <3>1, <3>2, <3>3, <3>6, <3>8
    <3>10. QED
      BY <3>1, <3>7, <3>9, DumpsForm
  <2>7. QED
    BY <2>4, <2>5, <2>6, DumpsForm
<1> HIDE DEF T
<1>2. Values \subseteq T
  BY <1>1, HeightAssumption, TaggedRec!HeightInduction
<1>3. QED
  BY <1>2 DEF T

\* Whatever the code computes, however deep: its result is plain JSON, a value
\* that json.dumps accepts is left alone, and the result of one that had to be
\* tagged is that of no other value, dicts with a tag for a key and values known by
\* their repr apart (helpers 40-99, README 322).
THEOREM EveryResultSurvives == Spec => []ResultsSurvive
<1>1. RecordsInv /\ CrossingInv /\ HandedBackInv => ResultsSurvive
  <2> SUFFICES ASSUME RecordsInv, HandedBackInv, NEW c \in Calls,
                      result[c].error = "none"
               PROVE  LET v == Running(c).final
                          r == result[c].result
                      IN  /\ PlainJson(r)
                          /\ Dumps[v] => r = v
                          /\ ~ Dumps[v] /\ ~ Ambiguous[v] =>
                                \A w \in Values :
                                   Transported(w) = r => w = v \/ Ambiguous[w]
    BY DEF ResultsSurvive
  <2> DEFINE v == request[c].final
             r == result[c].result
  <2>1. Running(c) = request[c]
    BY OwnCode
  <2>2. v \in Values /\ ~ IsPair(v)
    BY RequestsAssumption DEF RecordsInv
  <2>3. r = JsonableOutput(v)
    BY DEF HandedBackInv, HandedBack
  <2> HIDE DEF v, r
  <2>4. Plainly(r)
    BY <2>2, <2>3, DumpedIsPlain, TaggedIsPlain DEF JsonableOutput
  <2>5. ASSUME ~ Dumps[v], ~ Ambiguous[v], NEW w \in Values, Transported(w) = r,
               ~ Ambiguous[w]
        PROVE  w = v
    <3>1. r = Tagged[v]
      BY <2>3, <2>5 DEF JsonableOutput
    <3>2. ~ Dumps[w]
      BY <2>2, <2>5, <3>1, JsonApart DEF Transported
    <3>3. Tagged[w] = Tagged[v]
      BY <2>5, <3>1, <3>2 DEF Transported
    <3>4. QED
      BY <2>2, <2>5, <3>3, TaggedApart
  <2>6. Dumps[v] => r = v
    BY <2>3 DEF JsonableOutput
  <2>7. QED
    BY <2>1, <2>4, <2>5, <2>6, ClosedIsPlain DEF v, r
<1>2. QED
  BY <1>1, HandedBackKept, PTL
=============================================================================
