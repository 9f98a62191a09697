----------------------------- MODULE JsonReader -----------------------------
(* The JSON reader of runnel-format (json.rs): the recursive visitors as a  *)
(* stack of open collections, driven by the tokens serde_json finds, and    *)
(* the canonical writer.  A token is [t, k]: its kind, and for a key the    *)
(* key as a number.  Commas and colons belong to serde_json's grammar, and  *)
(* a token out of place stands for every error of it.                       *)
EXTENDS Naturals, Sequences, SequencesExt, FiniteSets

CONSTANTS
  MaxDepth,      \* MAX_NESTING_DEPTH
  MaxEntries,    \* MAX_JSON_COLLECTION_ENTRIES
  Keys,          \* valid keys
  MaxTokens      \* bound on the documents explored

VARIABLES
  doc,      \* the tokens read so far
  stack,    \* open collections, outermost first: [tok, fields, key]
  value,    \* the finished top-level value, or NoValue
  outcome,  \* "reading", "accepted" or "rejected"
  issue     \* ParseState::issue

vars == <<doc, stack, value, outcome, issue>>

(* What a scalar or a string may be, and the issue it raises: visit_bool to *)
(* visit_string, and validate_string.                                       *)
ScalarIssue ==
  [good |-> "none", null |-> "Null", float |-> "FloatingPoint", big |-> "IntegerOutOfRange",
   long |-> "StringTooLong", nonascii |-> "NonAsciiString"]
Scalars == DOMAIN ScalarIssue
BadKeys == {"longkey", "nonasciikey"}
BadKeyIssue(t) == IF t = "longkey" THEN "StringTooLong" ELSE "NonAsciiString"

Token(t) == [t |-> t, k |-> 0]
Tokens ==
  {Token(t) : t \in Scalars \cup BadKeys \cup {"[", "]", "{", "}"}}
    \cup {[t |-> "key", k |-> k] : k \in Keys}

(* JsonValue: an array has its items by position, an object by key.         *)
Scalar == [tok |-> "good", fields |-> <<>>]
NoValue == [tok |-> "none", fields |-> <<>>]

Init ==
  /\ doc = <<>>
  /\ stack = <<>>
  /\ value = NoValue
  /\ outcome = "reading"
  /\ issue = "none"

-----------------------------------------------------------------------------
(* ParseState::fail and the return of the error through every visitor: the  *)
(* first issue is the one reported, "syntax" if there is none.              *)
Fail(i) ==
  /\ issue' = IF issue = "none" THEN i ELSE issue
  /\ outcome' = "rejected"
  /\ stack' = <<>>
  /\ UNCHANGED value

Continue == UNCHANGED <<outcome, issue>>

Full(frame) == Cardinality(DOMAIN frame.fields) = MaxEntries

(* A finished value goes to the collection around it.  An array finds out   *)
(* only now that it was full; an object asked when it read the key.         *)
Deliver(outer, v) ==
  LET top == Last(outer)
      put(fields) == stack' = Append(Front(outer), [top EXCEPT !.fields = fields, !.key = 0])
  IN  \/ /\ outer = <<>>
         /\ value' = v /\ stack' = outer /\ Continue
      \/ /\ outer # <<>> /\ top.tok = "[" /\ Full(top)
         /\ Fail("CollectionTooLarge")
      \/ /\ outer # <<>> /\ top.tok = "[" /\ ~Full(top)
         /\ put(Append(top.fields, v)) /\ UNCHANGED value /\ Continue
      \/ /\ outer # <<>> /\ top.tok = "{"
         /\ put([k \in DOMAIN top.fields \cup {top.key} |-> IF k = top.key THEN v ELSE top.fields[k]])
         /\ UNCHANGED value /\ Continue

(* A value may start at the top level, in an array, and after a key.        *)
ValueExpected == IF stack = <<>> THEN value = NoValue ELSE Last(stack).tok = "[" \/ Last(stack).key # 0
KeyExpected == stack # <<>> /\ Last(stack).tok = "{" /\ Last(stack).key = 0

Read(t) ==
  /\ outcome = "reading" /\ Len(doc) < MaxTokens
  /\ doc' = Append(doc, t)

VisitScalar(t) ==
  /\ t.t \in Scalars /\ ValueExpected /\ Read(t)
  /\ IF ScalarIssue[t.t] = "none" THEN Deliver(stack, Scalar) ELSE Fail(ScalarIssue[t.t])

(* visit_seq and visit_map: the depth starts at 1 and is checked before the *)
(* first entry.                                                             *)
TooDeep(depth) == depth > MaxDepth

Open(t) ==
  /\ t.t \in {"[", "{"} /\ ValueExpected /\ Read(t)
  /\ IF TooDeep(Len(stack) + 1) THEN Fail("NestingTooDeep")
     ELSE stack' = Append(stack, [tok |-> t.t, fields |-> <<>>, key |-> 0]) /\ UNCHANGED value /\ Continue

Seen_Never(frame, k) == FALSE
Seen(frame, k) == k \in DOMAIN frame.fields

Key(t) ==
  /\ t.t \in {"key"} \cup BadKeys /\ KeyExpected /\ Read(t)
  /\ CASE t.t \in BadKeys -> Fail(BadKeyIssue(t.t))
       [] t.t = "key" /\ Seen(Last(stack), t.k) -> Fail("DuplicateKey")
       [] t.t = "key" /\ ~Seen(Last(stack), t.k) /\ Full(Last(stack)) -> Fail("CollectionTooLarge")
       [] OTHER -> /\ stack' = Append(Front(stack), [Last(stack) EXCEPT !.key = t.k])
                   /\ UNCHANGED value /\ Continue

Close(t) ==
  /\ t.t \in {"]", "}"} /\ stack # <<>> /\ Last(stack).tok = (IF t.t = "]" THEN "[" ELSE "{")
  /\ Last(stack).key = 0 /\ Read(t)
  /\ Deliver(Front(stack), [tok |-> Last(stack).tok, fields |-> Last(stack).fields])

(* A token that the grammar does not allow here, also after the value.      *)
Allowed(t) ==
  IF t.t \in Scalars \cup {"[", "{"} THEN ValueExpected
  ELSE IF t.t = "]" THEN stack # <<>> /\ Last(stack).tok = "[" ELSE KeyExpected
Misplaced(t) ==
  /\ ~Allowed(t)
  /\ Read(t)
  /\ Fail("syntax")

(* deserializer.end() after the value, or the end of the input before it.   *)
EndOfInput ==
  /\ outcome = "reading"
  /\ UNCHANGED doc
  /\ IF value # NoValue THEN outcome' = "accepted" /\ UNCHANGED <<stack, value, issue>> ELSE Fail("syntax")

Next ==
  \/ \E t \in Tokens : VisitScalar(t)
  \/ \E t \in Tokens : Open(t)
  \/ \E t \in Tokens : Key(t)
  \/ \E t \in Tokens : Close(t)
  \/ \E t \in Tokens : Misplaced(t)
  \/ EndOfInput

-----------------------------------------------------------------------------
(* canonical_bytes: the fields of an object in the order of their keys.     *)
FieldOrder(v) == SetToSortSeq(DOMAIN v.fields, LAMBDA a, b : a < b)
RECURSIVE WriteValue(_)
WriteValue(v) ==
  LET field(k) == (IF v.tok = "{" THEN <<[t |-> "key", k |-> k]>> ELSE <<>>) \o WriteValue(v.fields[k])
      close == IF v.tok = "[" THEN "]" ELSE "}"
  IN  IF v.tok = "good" THEN <<Token("good")>>
      ELSE <<Token(v.tok)>> \o FoldLeft(LAMBDA out, k : out \o field(k), <<>>, FieldOrder(v))
             \o <<Token(close)>>

-----------------------------------------------------------------------------
(* The same rules, read off the whole document.                             *)
Opens(d, i) == d[i].t \in {"[", "{"}
Closes(d, i) == d[i].t \in {"]", "}"}
IsKey(d, i) == d[i].t \in {"key"} \cup BadKeys
Before(d, i) == Cardinality({j \in 1..(i - 1) : Opens(d, j)}) - Cardinality({j \in 1..(i - 1) : Closes(d, j)})
Level(d, i) == Before(d, i) - (IF Closes(d, i) THEN 1 ELSE 0)
Parent(d, i) ==
  LET around == {j \in 1..(i - 1) : Opens(d, j) /\ Level(d, j) = Level(d, i) - 1}
  IN  IF around = {} THEN 0 ELSE CHOOSE j \in around : \A l \in around : l <= j
Opener(d, i) == CHOOSE j \in 1..(i - 1) :
  Opens(d, j) /\ Level(d, j) = Level(d, i) /\ \A l \in (j + 1)..(i - 1) : Level(d, l) > Level(d, i)
Values(d, p) == {i \in DOMAIN d : ~Closes(d, i) /\ ~IsKey(d, i) /\ Parent(d, i) = p}
Named(d, p) == {i \in DOMAIN d : IsKey(d, i) /\ Parent(d, i) = p}

Structured(d) ==
  /\ \A i \in DOMAIN d : Closes(d, i) => Before(d, i) > 0
  /\ Cardinality({i \in DOMAIN d : Opens(d, i)}) = Cardinality({i \in DOMAIN d : Closes(d, i)})
  /\ Cardinality(Values(d, 0)) = 1 /\ Named(d, 0) = {}
  /\ \A i \in DOMAIN d : Closes(d, i) => (d[i].t = "]") = (d[Opener(d, i)].t = "[")
  /\ \A p \in DOMAIN d :
       /\ d[p].t = "[" => Named(d, p) = {}
       /\ d[p].t = "{" => Values(d, p) = {i + 1 : i \in Named(d, p)}
Permitted(d) ==
  /\ \A i \in DOMAIN d : d[i].t \in {"good", "key", "[", "]", "{", "}"}
  /\ \A i \in DOMAIN d : Opens(d, i) => Level(d, i) < MaxDepth
  /\ \A p \in DOMAIN d : Cardinality(Values(d, p)) <= MaxEntries
  /\ \A p \in DOMAIN d : \A i, j \in Named(d, p) : d[i].k = d[j].k => i = j

(* parse accepts exactly the documents that are well formed and keep every  *)
(* rule: depth, collection size, distinct keys and permitted scalars.  The  *)
(* bytes that canonical_bytes writes an accepted value back to are the      *)
(* document exactly when every object of it has its keys in order, so that  *)
(* the comparison in parse_with_limits accepts one spelling of each value.  *)
AcceptsExactly ==
  /\ outcome # "reading" => (outcome = "accepted" <=> Structured(doc) /\ Permitted(doc))
  /\ outcome = "accepted" =>
       (WriteValue(value) = doc <=>
          \A p \in DOMAIN doc : \A i, j \in Named(doc, p) : i < j => doc[i].k < doc[j].k)
=============================================================================
