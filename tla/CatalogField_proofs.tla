------------------------ MODULE CatalogField_proofs ------------------------
(***************************************************************************)
(* Proofs about CatalogField, for every set of declarations, typed texts   *)
(* and native values: the page shows a value as it is or with a badge, an  *)
(* edit is what the next page shows, an untouched save changes nothing,    *)
(* and the command line agrees with the page.                              *)
(***************************************************************************)
EXTENDS CatalogField, TLAPS

---------------------------------------------------------------------------
(* The inductive invariant                                                 *)

PageType == [step : {"closed", "open"}, current : {None} \cup Text, fromDefault : BOOLEAN,
             dirty : BOOLEAN, chosen : {None} \cup Text, fresh : BOOLEAN]

FieldTypes ==
  /\ decl \in Decl /\ published \in BOOLEAN
  /\ dev \in {None} \cup Stored /\ app \in {None} \cup Stored
  /\ page \in PageType

(* What is published has passed both halves of the check.                  *)
PublishedOK == published => SchemaOK(decl) /\ LintOK(decl)

(* An open page is of a published catalog, holds only what its widget      *)
(* lets through, and shows what is in effect while nobody has written.     *)
OpenOK ==
  page.step = "open" =>
    /\ published
    /\ page.dirty => page.chosen \in Text /\ Choosable(decl, page.current, page.chosen)
    /\ page.fresh => page.current = Resolved.text /\ page.fromDefault = Resolved.fromDefault

FieldOK == FieldTypes /\ PublishedOK /\ OpenOK

---------------------------------------------------------------------------
(* Lemmas about declarations and their widgets                             *)

(* Only an int or a string has the hint (_lint_field_enum) and a           *)
(* `type: enum` has values (_cross_field_checks).                          *)
LEMMA ChoicesByType ==
  ASSUME NEW d \in Decl, SchemaOK(d), EnumOK(d)
  PROVE  /\ d.type \in {"bool", "float"} => Choices(d) = <<>>
         /\ d.type = "enum" => Choices(d) # <<>> /\ Choices(d) = d.values
  <1>1. d.type \notin {"int", "string"} => d.enum = None
    BY DEF EnumOK
  <1>2. (d.type = "enum") = (d.values # <<>>)
    BY DEF SchemaOK
  <1> QED BY <1>1, <1>2 DEF Choices

(* The four ways through render_widget's dispatch.                         *)
LEMMA WidgetCases ==
  ASSUME NEW d \in Decl, SchemaOK(d), EnumOK(d)
  PROVE  \/ d.type = "bool" /\ Choices(d) = <<>> /\ Widget(d) \in {"radio", "truth"}
         \/ d.type # "bool" /\ Choices(d) # <<>> /\ Widget(d) \in {"radio", "select"}
         \/ /\ Numeric(d) /\ Choices(d) = <<>>
            /\ Widget(d) = "number" \/ (Widget(d) = "range" /\ Lower(d) # None /\ Upper(d) # None)
         \/ d.type = "string" /\ Choices(d) = <<>> /\ Widget(d) \in {"masked", "text"}
  <1>1. d.type \in {"int", "float", "bool", "string", "enum"}
    BY DEF Decl, Types
  <1>2. CASE d.type = "bool"
    <2>1. Choices(d) = <<>> BY <1>2, ChoicesByType
    <2>2. Widget(d) = IF d.widget = "radio" THEN "radio" ELSE "truth"
      BY <1>2 DEF Widget, Numeric
    <2> QED BY <1>2, <2>1, <2>2
  <1>3. CASE d.type # "bool" /\ Choices(d) # <<>>
    <2>1. Widget(d) = IF d.widget = "radio" THEN "radio" ELSE "select"
      BY <1>3 DEF Widget
    <2> QED BY <1>3, <2>1
  <1>4. CASE d.type # "bool" /\ Choices(d) = <<>> /\ Numeric(d)
    <2>1. Widget(d) = IF d.type = "int" /\ d.widget = "slider" /\ Lower(d) # None /\ Upper(d) # None
                      THEN "range" ELSE "number"
      BY <1>4 DEF Widget
    <2> QED BY <1>4, <2>1
  <1>5. CASE d.type # "bool" /\ Choices(d) = <<>> /\ ~Numeric(d)
    <2>1. d.type = "string"
      BY <1>1, <1>5, ChoicesByType DEF Numeric
    <2>2. Widget(d) = IF d.multiline \/ d.widget = "secret" THEN "masked" ELSE "text"
      BY <1>5 DEF Widget
    <2> QED BY <1>5, <2>1, <2>2
  <1> QED BY <1>2, <1>3, <1>4, <1>5

(* A number within the bounds and on the step stays where it is on a       *)
(* slider.                                                                 *)
LEMMA SliderKeeps ==
  ASSUME NEW d \in Decl, Lower(d) # None, Upper(d) # None,
         NEW t \in Text, JsonNumber(t), Within(d, t.n), OnStep(d, t, t.n)
  PROVE  Slid(d, Clamped(d, t)) = t
  <1>1. Lower(d) \in Int /\ Upper(d) \in Int /\ t.n \in Int
    BY DEF Lower, Upper, Decl, Bounds, Text
  <1>2. Lower(d) <= t.n /\ t.n <= Upper(d)
    BY DEF Within
  <1>3. Clamped(d, t) = t
    BY <1>1, <1>2 DEF Clamped, Number
  <1>4. OnStep(d, None, t.n)
    BY DEF OnStep, Base
  <1>5. Snapped(d, t.n) = t.n
    BY <1>1, <1>2, <1>4 DEF Snapped
  <1> QED BY <1>3, <1>5 DEF Slid

(* is_off_spec against the widgets: a text that carries no badge and that  *)
(* the widget can hold is shown as it is, and the browser lets it through. *)
LEMMA InSpecIsShown ==
  ASSUME NEW d \in Decl, SchemaOK(d), EnumOK(d), NEW t \in Text, t # Empty, ~OffSpec(d, t),
         Holdable(d, t)
  PROVE  /\ Shown(d, t) = t \/ d.writeOnly \/ d.type = "bool"
         /\ Shown(d, t) # Empty =>
              /\ Widget(d) = "number" => Within(d, Shown(d, t).n) /\ OnStep(d, t, Shown(d, t).n)
              /\ Widget(d) = "text" /\ d.pattern # None => Shown(d, t) \in d.pattern
  <1>1. t # None
    BY FieldAssumption
  <1>2. CASE d.type = "bool" /\ Widget(d) \in {"radio", "truth"}
    BY <1>2
  <1>3. CASE d.type # "bool" /\ Choices(d) # <<>> /\ Widget(d) \in {"radio", "select"}
    <2>1. t \in Entries(Options(d))
      BY <1>1, <1>3 DEF OffSpec, Options
    <2>2. Shown(d, t) = t
      BY <1>3, <2>1 DEF Shown
    <2> QED BY <1>3, <2>2
  <1>4. CASE Numeric(d) /\ Choices(d) = <<>> /\ Widget(d) = "number"
    <2>1. JsonNumber(t) /\ Within(d, t.n) /\ OnStep(d, t, t.n)
      BY <1>1, <1>4 DEF OffSpec, Holdable
    <2>2. Shown(d, t) = t
      BY <1>1, <1>4, <2>1 DEF Shown
    <2> QED BY <1>4, <2>1, <2>2
  <1>5. CASE /\ Numeric(d) /\ Choices(d) = <<>> /\ Widget(d) = "range"
             /\ Lower(d) # None /\ Upper(d) # None
    <2>1. JsonNumber(t) /\ Within(d, t.n) /\ OnStep(d, t, t.n)
      BY <1>1, <1>5 DEF OffSpec, Holdable
    <2>2. Slid(d, Clamped(d, t)) = t
      BY <1>5, <2>1, SliderKeeps
    <2>3. Shown(d, t) = t
      BY <1>1, <1>5, <2>2 DEF Shown
    <2> QED BY <1>5, <2>3
  <1>6. CASE d.type = "string" /\ Choices(d) = <<>> /\ Widget(d) \in {"masked", "text"}
    <2>1. FitsString(d, t)
      BY <1>1, <1>6 DEF OffSpec, Numeric
    <2>2. Shown(d, t) = IF d.writeOnly THEN Empty ELSE t
      BY <1>1, <1>6 DEF Shown
    <2> QED BY <1>6, <2>1, <2>2 DEF FitsString
  <1> QED BY <1>2, <1>3, <1>4, <1>5, <1>6, WidgetCases

(* What the widget lets the customer submit carries no badge, but for a    *)
(* textarea or a password off its pattern.                                 *)
LEMMA ChosenIsInSpec ==
  ASSUME NEW d \in Decl, SchemaOK(d), EnumOK(d), NEW current, NEW t \in Text,
         Choosable(d, current, t), OffSpec(d, t)
  PROVE  Widget(d) = "masked" /\ d.pattern # None
  <1>1. t \notin {None, Empty}
    BY DEF OffSpec
  <1>2. CASE d.type = "bool" /\ Choices(d) = <<>>
    BY <1>2 DEF OffSpec, Numeric
  <1>3. CASE d.type # "bool" /\ Choices(d) # <<>> /\ Widget(d) \in {"radio", "select"}
    <2>1. t \in Entries(Choices(d))
      BY <1>3 DEF Choosable, Options
    <2> QED BY <1>3, <2>1 DEF OffSpec
  <1>4. CASE Numeric(d) /\ Choices(d) = <<>> /\ Widget(d) \in {"number", "range"}
    <2>1. CASE Widget(d) = "number"
      BY <1>1, <1>4, <2>1 DEF Choosable, OffSpec, Number
    <2>2. CASE Widget(d) = "range"
      <3>1. t = Printed(t.n) /\ Within(d, t.n)
        BY <2>2 DEF Choosable
      <3>2. JsonNumber(t)
        BY <3>1 DEF Printed, JsonNumber
      <3> QED BY <1>4, <3>1, <3>2 DEF OffSpec, Number
    <2> QED BY <1>4, <2>1, <2>2
  <1>5. CASE d.type = "string" /\ Choices(d) = <<>> /\ Widget(d) = "text"
    <2>1. FitsString(d, t)
      BY <1>1, <1>5 DEF Choosable
    <2> QED BY <1>5, <2>1 DEF OffSpec, Numeric
  <1>6. CASE d.type = "string" /\ Choices(d) = <<>> /\ Widget(d) = "masked"
    <2>1. ~FitsString(d, t)
      BY <1>6 DEF OffSpec, Numeric
    <2>2. d.maxLength # None => Size(t) <= d.maxLength
      BY <1>6 DEF Choosable
    <2> QED BY <1>6, <2>1, <2>2 DEF FitsString
  <1> QED BY <1>2, <1>3, <1>4, <1>5, <1>6, WidgetCases

(* coerce_value by the schema against is_off_spec by the hints: with no    *)
(* hint but the range, what the first accepts the second does not flag.    *)
LEMMA CoercedIsInSpec ==
  ASSUME NEW d \in Decl, SchemaOK(d), NoHints(d), NEW t \in Text, Coerces(d, t)
  PROVE  ~OffSpec(d, Coerced(d, t).text)
  <1> USE DEF NoHints
  <1>1. d.enum = None /\ (d.type = "enum") = (d.values # <<>>)
    BY DEF SchemaOK
  <1>2. CASE Numeric(d)
    <2>1. InRange(d, t.n)
      BY <1>2 DEF Coerces, Numeric
    <2>2. Number(Coerced(d, t).text) /\ Coerced(d, t).text.n = t.n
      BY <1>2 DEF Coerced, Nat_, Float, Numeric, Number, JsonNumber
    <2>3. Choices(d) = <<>>
      BY <1>1, <1>2 DEF Choices, Numeric
    <2>4. Within(d, t.n)
      BY <2>1 DEF Within, Lower, Upper, InRange
    <2> QED BY <1>2, <2>1, <2>2, <2>3, <2>4 DEF OffSpec
  <1>3. CASE d.type = "bool"
    <2>1. Choices(d) = <<>>
      BY <1>1, <1>3 DEF Choices
    <2> QED BY <1>3, <2>1 DEF OffSpec, Numeric
  <1>4. CASE d.type = "enum"
    <2>1. Choices(d) = d.values /\ d.values # <<>>
      BY <1>1, <1>4 DEF Choices
    <2>2. t \in Entries(d.values)
      BY <1>4 DEF Coerces, Numeric
    <2>3. Coerced(d, t).text = t
      BY <1>4 DEF Coerced, Str, Numeric
    <2> QED BY <2>1, <2>2, <2>3 DEF OffSpec
  <1>5. CASE d.type = "string"
    <2>1. Choices(d) = <<>>
      BY <1>1, <1>5 DEF Choices
    <2>2. FitsString(d, Coerced(d, t).text)
      BY DEF FitsString
    <2> QED BY <1>5, <2>1, <2>2 DEF OffSpec, Numeric
  <1>6. d.type \in {"int", "float", "bool", "string", "enum"}
    BY DEF Decl, Types
  <1> QED BY <1>2, <1>3, <1>4, <1>5, <1>6 DEF Numeric

---------------------------------------------------------------------------
(* Lemmas about values                                                     *)

(* _decode_form_value gives a value; only null gives null; a number stays  *)
(* the number it is.                                                       *)
LEMMA DecodedText ==
  ASSUME NEW t \in Text
  PROVE  /\ Decoded(t) \in Value /\ Decoded(t).text \in Text
         /\ Decoded(t) = Nat_(Null) => t = Null
         /\ Number(t) => SameNumber(Decoded(t).text, t)
  <1>1. Float(t.n) \in Text /\ Word(t.n) \in Text
    BY DEF Float, Word, Text
  <1>2. \A u \in Text : /\ Nat_(u) \in Value /\ Nat_(u).text = u
                        /\ Str(u) \in Value /\ Str(u).text = u /\ Str(u) # Nat_(Null)
    BY DEF Nat_, Str, Value
  <1>3. \A u \in Text : u # None
    BY FieldAssumption
  <1>4. CASE t.form \in {"int", "float", "bool", "null"}
    <2>1. Decoded(t) = Nat_(t)
      BY <1>4 DEF Decoded
    <2> QED BY <1>2, <1>3, <2>1 DEF SameNumber, Nat_
  <1>5. CASE t.form = "respelt"
    <2>1. Decoded(t) = Nat_(Float(t.n))
      BY <1>5 DEF Decoded
    <2>2. Float(t.n).form = "float" /\ Float(t.n).n = t.n /\ Null.form = "null"
      BY DEF Float, Null
    <2>3. Number(Float(t.n)) /\ Float(t.n) # Null
      BY <2>2 DEF Number, JsonNumber
    <2> QED BY <1>1, <1>2, <1>3, <2>1, <2>2, <2>3 DEF SameNumber, Nat_
  <1>6. CASE t.form = "quoted"
    <2>1. Decoded(t) = Str(Word(t.n)) /\ ~Number(t)
      BY <1>6 DEF Decoded, Number, JsonNumber
    <2> QED BY <1>1, <1>2, <2>1
  <1>7. CASE t.form \notin {"int", "float", "bool", "null", "respelt", "quoted"}
    <2>1. Decoded(t) = Str(t)
      BY <1>7 DEF Decoded
    <2> QED BY <1>2, <1>3, <2>1 DEF SameNumber
  <1> QED BY <1>4, <1>5, <1>6, <1>7

(* What the form makes of a choice in a numeric field has no badge either, *)
(* though its text may be another one.                                     *)
LEMMA DecodedIsInSpec ==
  ASSUME NEW d \in Decl, SchemaOK(d), EnumOK(d), Numeric(d), NEW current, NEW t \in Text,
         Choosable(d, current, t), OffSpec(d, Decoded(t).text)
  PROVE  Kept(t)
  <1>1. CASE Choices(d) # <<>>
    <2>1. d.type = "int" /\ d.enum \notin {None, <<>>}
      BY <1>1, ChoicesByType DEF Numeric, Choices, SchemaOK
    <2>2. Choices(d) = [i \in DOMAIN d.enum |-> d.enum[i].text]
      BY <2>1 DEF Choices
    <2>3. t \in Entries(Choices(d))
      BY <1>1, <2>1, WidgetCases DEF Choosable, Options, Numeric
    <2>4. PICK i \in DOMAIN d.enum : t = d.enum[i].text
      BY <2>2, <2>3 DEF Entries
    <2>5. HasType(d.enum[i], "int")
      BY <2>1, <2>4 DEF EnumOK, Entries
    <2>6. t.form \in {"int", "bool"}
      BY <2>4, <2>5 DEF HasType
    <2> QED BY <2>6 DEF Kept, Decoded, Nat_
  <1>2. CASE Choices(d) = <<>> /\ t = Empty
    BY <1>2 DEF Kept, Decoded, Str, Empty
  <1>3. CASE Choices(d) = <<>> /\ t # Empty
    <2>1. JsonNumber(t) /\ Within(d, t.n)
      <3>1. CASE Widget(d) = "number"
        BY <1>3, <3>1 DEF Choosable
      <3>2. CASE Widget(d) = "range"
        BY <3>2 DEF Choosable, Printed, JsonNumber
      <3> QED BY <1>3, <3>1, <3>2, WidgetCases DEF Numeric
    <2>2. SameNumber(Decoded(t).text, t)
      BY <2>1, DecodedText DEF Number
    <2>3. ~OffSpec(d, Decoded(t).text)
      BY <1>3, <2>1, <2>2 DEF OffSpec, SameNumber
    <2> QED BY <2>3
  <1> QED BY <1>1, <1>2, <1>3

LEMMA CoercedType ==
  ASSUME NEW d \in Decl, NEW t \in Text
  PROVE  Coerced(d, t) \in Value
  <1>1. d.type \in {"int", "float", "bool", "enum", "string"}
    BY DEF Decl, Types
  <1>2. /\ t \in Text /\ Bool(t.n # 0) \in Text /\ Float(t.n) \in Text
        /\ [form |-> "int", n |-> t.n] \in Text
    BY DEF Text, Bool, Float
  <1>3. \A u \in Text : Nat_(u) \in Value /\ Str(u) \in Value
    BY DEF Nat_, Str, Value
  <1> QED BY <1>1, <1>2, <1>3 DEF Coerced

LEMMA ResolvedType ==
  ASSUME FieldTypes
  PROVE  Resolved.text \in {None} \cup Text /\ Resolved.fromDefault \in BOOLEAN
  <1>1. \A v \in Value : v.text \in Text
    BY DEF Value
  <1>2. Holds(dev) => dev.value \in Value
    BY DEF FieldTypes, Holds, Stored
  <1>3. Holds(app) => app.value \in Value
    BY DEF FieldTypes, Holds, Stored
  <1>4. decl.default = None \/ decl.default \in Value
    BY DEF FieldTypes, Decl
  <1> QED BY <1>1, <1>2, <1>3, <1>4 DEF Resolved

(* What the form stores for the device is what resolve_value finds next,   *)
(* whatever the app's record and the default are, unless it is null.       *)
LEMMA StoredIsResolved ==
  ASSUME NEW t \in Text, t # Null, NEW enc \in BOOLEAN,
         dev' = [value |-> Decoded(t), enc |-> enc]
  PROVE  Resolved' = [text |-> Decoded(t).text, fromDefault |-> FALSE]
  <1>1. dev' \in Stored /\ dev'.value = Decoded(t)
    BY DecodedText DEF Stored
  <1>2. dev' # None
    BY <1>1, FieldAssumption
  <1>3. Holds(dev)'
    BY <1>1, <1>2, DecodedText DEF Holds
  <1>4. dev'.value.text = Decoded(t).text
    BY <1>1, DecodedText
  <1> QED BY <1>3, <1>4 DEF Resolved

---------------------------------------------------------------------------
(* The invariant is inductive                                              *)

LEMMA FieldInit == Init => FieldOK
  <1> SUFFICES ASSUME Init PROVE FieldOK
    OBVIOUS
  <1>1. decl \in Decl
    BY FieldAssumption DEF Init
  <1>2. page \in PageType
    BY DEF Init, Closed, PageType
  <1>3. FieldTypes
    BY <1>1, <1>2 DEF Init, FieldTypes
  <1>4. page.step = "closed" /\ published = FALSE
    BY DEF Init, Closed
  <1> QED BY <1>3, <1>4 DEF FieldOK, PublishedOK, OpenOK

LEMMA PublishOK == FieldOK /\ Publish => FieldOK'
  <1> SUFFICES ASSUME FieldOK, Publish PROVE FieldOK'
    OBVIOUS
  <1>1. FieldTypes'
    BY DEF FieldOK, Publish, FieldTypes
  <1>2. PublishedOK'
    BY DEF Publish, PublishedOK
  <1>3. Resolved' = Resolved /\ page' = page /\ decl' = decl
    BY DEF Publish, Resolved, Holds
  <1>4. OpenOK'
    BY <1>3 DEF FieldOK, OpenOK, Publish
  <1> QED BY <1>1, <1>2, <1>4 DEF FieldOK

(* Every write of a record, by whomever: an open page is no longer fresh.  *)
LEMMA PutOK ==
  ASSUME FieldOK, NEW scope, NEW rec \in {None} \cup Stored, Put(scope, rec)
  PROVE  FieldOK'
  <1>1. dev' \in {None} \cup Stored /\ app' \in {None} \cup Stored
    BY DEF FieldOK, FieldTypes, Put
  <1>2. /\ page.step = page'.step /\ page.dirty = page'.dirty /\ page.chosen = page'.chosen
        /\ page.current = page'.current /\ page'.fresh = FALSE /\ page' \in PageType
    BY DEF FieldOK, FieldTypes, Put, PageType
  <1>3. decl' = decl /\ published' = published
    BY DEF Put
  <1>4. FieldTypes'
    BY <1>1, <1>2, <1>3 DEF FieldOK, FieldTypes
  <1>5. PublishedOK'
    BY <1>3 DEF FieldOK, PublishedOK
  <1>6. OpenOK'
    BY <1>2, <1>3 DEF FieldOK, OpenOK
  <1> QED BY <1>4, <1>5, <1>6 DEF FieldOK

LEMMA CliOK == FieldOK /\ Cli => FieldOK'
  <1> SUFFICES ASSUME FieldOK, NEW scope \in {"device", "app"},
                      \/ CliUnset(scope) \/ CliDelete(scope)
                      \/ \E t \in Typed : CliSet(scope, t) \/ \E enc \in BOOLEAN : CliPut(scope, t, enc)
               PROVE  FieldOK'
    BY DEF Cli
  <1>1. decl \in Decl /\ decl.encrypted \in BOOLEAN
    BY DEF FieldOK, FieldTypes, Decl
  <1>2. \A t \in Text : Str(t) \in Value
    BY DEF Str, Value
  <1>3. \A v \in Value, enc \in BOOLEAN : [value |-> v, enc |-> enc] \in Stored
    BY DEF Stored
  <1>4. CASE CliUnset(scope)
    <2>1. Empty \in Text
      BY DEF Empty, Text
    <2> QED BY <1>1, <1>2, <1>3, <1>4, <2>1, PutOK DEF CliUnset
  <1>5. CASE CliDelete(scope)
    BY <1>5, PutOK DEF CliDelete
  <1>6. ASSUME NEW t \in Typed, CliSet(scope, t)
        PROVE  FieldOK'
    <2>1. t \in Text
      BY FieldAssumption
    <2>2. [value |-> Coerced(decl, t), enc |-> decl.encrypted] \in Stored
      BY <1>1, <1>3, <2>1, CoercedType
    <2> QED BY <1>6, <2>2, PutOK DEF CliSet
  <1>7. ASSUME NEW t \in Typed, NEW enc \in BOOLEAN, CliPut(scope, t, enc)
        PROVE  FieldOK'
    <2>1. [value |-> Str(t), enc |-> enc] \in Stored
      BY <1>2, <1>3, FieldAssumption
    <2> QED BY <1>7, <2>1, PutOK DEF CliPut
  <1> QED BY <1>4, <1>5, <1>6, <1>7

LEMMA DeviceWriteOK == FieldOK /\ (\E v \in Native : DeviceWrite(v)) => FieldOK'
  <1> SUFFICES ASSUME FieldOK, NEW v \in Native, DeviceWrite(v) PROVE FieldOK'
    OBVIOUS
  <1>1. [value |-> v, enc |-> FALSE] \in Stored
    BY FieldAssumption DEF Stored
  <1> QED BY <1>1, PutOK DEF DeviceWrite

LEMMA OpenPageOK == FieldOK /\ OpenPage => FieldOK'
  <1> SUFFICES ASSUME FieldOK, OpenPage PROVE FieldOK'
    OBVIOUS
  <1>1. Resolved.text \in {None} \cup Text /\ Resolved.fromDefault \in BOOLEAN
    BY ResolvedType DEF FieldOK
  <1>2. Resolved' = Resolved
    BY DEF OpenPage, Resolved, Holds
  <1>3. /\ page' \in PageType /\ page'.dirty = FALSE
        /\ page'.current = Resolved.text /\ page'.fromDefault = Resolved.fromDefault
    BY <1>1 DEF OpenPage, PageType
  <1>4. published /\ UNCHANGED <<decl, published, dev, app>>
    BY DEF OpenPage
  <1>5. FieldTypes'
    BY <1>3, <1>4 DEF FieldOK, FieldTypes
  <1>6. PublishedOK'
    BY <1>4 DEF FieldOK, PublishedOK
  <1>7. OpenOK'
    BY <1>2, <1>3, <1>4 DEF OpenOK
  <1> QED BY <1>5, <1>6, <1>7 DEF FieldOK

LEMMA EditOK == FieldOK /\ (\E t \in Typed : Edit(t)) => FieldOK'
  <1> SUFFICES ASSUME FieldOK, NEW t \in Typed, Edit(t) PROVE FieldOK'
    OBVIOUS
  <1>1. t \in Text
    BY FieldAssumption
  <1>2. Resolved' = Resolved /\ UNCHANGED <<decl, published, dev, app>>
    BY DEF Edit, Resolved, Holds
  <1>3. /\ page' \in PageType /\ page'.chosen = t
        /\ Choosable(decl, page.current, t)
        /\ page'.step = page.step /\ page'.fresh = page.fresh
        /\ page'.current = page.current /\ page'.fromDefault = page.fromDefault
    BY <1>1 DEF FieldOK, FieldTypes, Edit, PageType
  <1>4. FieldTypes'
    BY <1>2, <1>3 DEF FieldOK, FieldTypes
  <1>5. PublishedOK'
    BY <1>2 DEF FieldOK, PublishedOK
  <1>6. OpenOK'
    BY <1>1, <1>2, <1>3 DEF FieldOK, OpenOK
  <1> QED BY <1>4, <1>5, <1>6 DEF FieldOK

LEMMA CloseOK == FieldOK /\ Close => FieldOK'
  <1> SUFFICES ASSUME FieldOK, Close PROVE FieldOK'
    OBVIOUS
  <1>1. page' \in PageType /\ page'.step = "closed" /\ UNCHANGED <<decl, published, dev, app>>
    BY DEF Close, Closed, PageType
  <1> QED BY <1>1 DEF FieldOK, FieldTypes, PublishedOK, OpenOK

LEMMA SerializedType ==
  ASSUME FieldOK, page.step = "open"
  PROVE  /\ page.dirty => Serialized = page.chosen /\ page.chosen \in Text
         /\ ~page.dirty => Serialized \in {None, Original}
         /\ ~page.dirty /\ page.fromDefault /\ Widget(decl) # "radio" => Serialized = None
         /\ Original \in Text
  <1>1. page \in PageType
    BY DEF FieldOK, FieldTypes
  <1>2. page.dirty \in BOOLEAN /\ page.current \in {None} \cup Text
    BY <1>1 DEF PageType
  <1>3. Original \in Text
    BY <1>2 DEF Original, Empty, Text
  <1>4. CASE page.dirty
    <2>1. page.chosen \in Text
      BY <1>4 DEF FieldOK, OpenOK
    <2>2. Serialized = page.chosen
      BY <1>4 DEF Serialized
    <2> QED BY <1>3, <1>4, <2>1, <2>2
  <1>5. CASE ~page.dirty /\ Widget(decl) = "radio"
    <2>1. Serialized = IF Shown(decl, page.current) = None THEN None ELSE Original
      BY <1>5 DEF Serialized
    <2> QED BY <1>3, <1>5, <2>1
  <1>6. CASE ~page.dirty /\ Widget(decl) # "radio"
    <2>1. Serialized = IF decl.writeOnly \/ page.fromDefault THEN None ELSE Original
      BY <1>6 DEF Serialized
    <2> QED BY <1>3, <1>6, <2>1
  <1> QED BY <1>4, <1>5, <1>6

LEMMA SaveOK == FieldOK /\ Save => FieldOK'
  <1> SUFFICES ASSUME FieldOK, Save PROVE FieldOK'
    OBVIOUS
  <1>1. page' \in PageType /\ page'.step = "closed" /\ UNCHANGED <<decl, published, app>>
    BY DEF Save, Closed, PageType
  <1>2. page.step = "open" /\ decl.encrypted \in BOOLEAN
    BY DEF Save, FieldOK, FieldTypes, Decl
  <1>3. Serialized # None => Serialized \in Text
    BY <1>2, SerializedType
  <1>4. Serialized # None => [value |-> Decoded(Serialized), enc |-> decl.encrypted] \in Stored
    BY <1>2, <1>3, DecodedText DEF Stored
  <1>5. dev' \in {None} \cup Stored
    BY <1>4 DEF Save, FieldOK, FieldTypes
  <1> QED BY <1>1, <1>5 DEF FieldOK, FieldTypes, PublishedOK, OpenOK

LEMMA FieldStep == FieldOK /\ [Next]_vars => FieldOK'
  <1> SUFFICES ASSUME FieldOK, [Next]_vars PROVE FieldOK'
    OBVIOUS
  <1>1. CASE Next
    BY <1>1, PublishOK, CliOK, DeviceWriteOK, OpenPageOK, EditOK, CloseOK, SaveOK
    DEF Next, Customer
  <1>2. CASE UNCHANGED vars
    <2>1. Resolved' = Resolved
      BY <1>2 DEF vars, Resolved, Holds
    <2> QED BY <1>2, <2>1 DEF vars, FieldOK, FieldTypes, PublishedOK, OpenOK
  <1> QED BY <1>1, <1>2

THEOREM FieldInvariant == Spec => []FieldOK
  BY FieldInit, FieldStep, PTL DEF Spec

---------------------------------------------------------------------------
(* What the page shows                                                     *)

(* is_off_spec, the widgets and the browser's validation agree but on the  *)
(* step and the spelling of numbers: else a value is shown as it is or     *)
(* with a badge, and only a badged value holds up an untouched form.       *)
THEOREM ShowsOrFlags == Spec => []ShownOrFlagged
  <1>1. FieldOK => ShownOrFlagged
    <2> SUFFICES ASSUME FieldOK, page.step = "open", page.current \notin {None, Empty},
                        ~OffSpec(decl, page.current), Holdable(decl, page.current)
                 PROVE  /\ Shown(decl, page.current) = page.current \/ decl.writeOnly
                                                                    \/ decl.type = "bool"
                        /\ ~page.dirty => Submittable
      BY DEF ShownOrFlagged
    <2>1. decl \in Decl /\ SchemaOK(decl) /\ EnumOK(decl)
      BY DEF FieldOK, FieldTypes, PublishedOK, OpenOK, LintOK
    <2>2. page.current \in Text
      BY DEF FieldOK, FieldTypes, PageType
    <2> QED BY <2>1, <2>2, InSpecIsShown DEF Submittable
  <1> QED BY <1>1, FieldInvariant, PTL

(* A customer's edit, decoded and stored for the device, is what           *)
(* resolve_value gives the next page: the same text where json.loads keeps *)
(* it, the same number in a numeric field.  It carries a badge only where  *)
(* the widget is not held to the pattern or json.loads made another text   *)
(* of it.                                                                  *)
THEOREM EditIsShown == Spec => EditedSaveShown
  <1>1. FieldOK /\ [Next]_vars =>
          [Save /\ page.dirty /\ page.chosen # Null =>
             /\ ~Resolved'.fromDefault
             /\ Kept(page.chosen) => Resolved'.text = page.chosen
             /\ Numeric(decl) /\ Number(page.chosen) => SameNumber(Resolved'.text, page.chosen)
             /\ OffSpec(decl, Resolved'.text) =>
                  \/ Widget(decl) = "masked" /\ decl.pattern # None
                  \/ ~Numeric(decl) /\ ~Kept(page.chosen)]_vars
    <2> SUFFICES ASSUME FieldOK, Save, page.dirty, page.chosen # Null
                 PROVE  /\ ~Resolved'.fromDefault
                        /\ Kept(page.chosen) => Resolved'.text = page.chosen
                        /\ Numeric(decl) /\ Number(page.chosen) =>
                             SameNumber(Resolved'.text, page.chosen)
                        /\ OffSpec(decl, Resolved'.text) =>
                             \/ Widget(decl) = "masked" /\ decl.pattern # None
                             \/ ~Numeric(decl) /\ ~Kept(page.chosen)
      OBVIOUS
    <2>1. page.step = "open"
      BY DEF Save
    <2>2. decl \in Decl /\ SchemaOK(decl) /\ EnumOK(decl) /\ decl.encrypted \in BOOLEAN
      BY <2>1 DEF FieldOK, FieldTypes, PublishedOK, OpenOK, LintOK, Decl
    <2>3. page.chosen \in Text /\ Choosable(decl, page.current, page.chosen)
      BY <2>1 DEF FieldOK, OpenOK
    <2>4. Serialized = page.chosen /\ Serialized # None
      BY <2>1, <2>3, SerializedType, FieldAssumption
    <2>5. dev' = [value |-> Decoded(page.chosen), enc |-> decl.encrypted]
      BY <2>4 DEF Save
    <2>6. Resolved' = [text |-> Decoded(page.chosen).text, fromDefault |-> FALSE]
      BY <2>2, <2>3, <2>5, StoredIsResolved
    <2>7. Number(page.chosen) => SameNumber(Resolved'.text, page.chosen)
      BY <2>3, <2>6, DecodedText
    <2>8. Kept(page.chosen) => Resolved'.text = page.chosen
      BY <2>6 DEF Kept
    <2>9. ASSUME OffSpec(decl, Resolved'.text)
          PROVE  \/ Widget(decl) = "masked" /\ decl.pattern # None
                 \/ ~Numeric(decl) /\ ~Kept(page.chosen)
      <3>1. CASE Kept(page.chosen)
        BY <2>2, <2>3, <2>8, <2>9, <3>1, ChosenIsInSpec
      <3>2. CASE ~Kept(page.chosen)
        BY <2>2, <2>3, <2>6, <2>9, <3>2, DecodedIsInSpec
      <3> QED BY <3>1, <3>2
    <2> QED BY <2>6, <2>7, <2>8, <2>9
  <1> QED BY <1>1, FieldInvariant, PTL DEF Spec, EditedSaveShown

(* A form submitted without an edit writes back what the page was rendered *)
(* with, or nothing: the next page shows the same text where json.loads    *)
(* keeps it and the same number in a numeric field, and the catalog's      *)
(* default does not become the device's value but from a radio group.      *)
THEOREM UntouchedIsSame == Spec => UntouchedSaveSame
  <1>1. FieldOK /\ [Next]_vars =>
          [Save /\ ~page.dirty =>
             /\ page.fresh /\ page.current # Null /\ Kept(Original) =>
                  Visible(Resolved'.text) = Visible(page.current)
             /\ page.fresh /\ Numeric(decl) /\ Number(Original) =>
                  SameNumber(Resolved'.text, Original)
             /\ page.fromDefault /\ Widget(decl) # "radio" => dev' = dev]_vars
    <2> SUFFICES ASSUME FieldOK, Save, ~page.dirty
                 PROVE  /\ page.fresh /\ page.current # Null /\ Kept(Original) =>
                             Visible(Resolved'.text) = Visible(page.current)
                        /\ page.fresh /\ Numeric(decl) /\ Number(Original) =>
                             SameNumber(Resolved'.text, Original)
                        /\ page.fromDefault /\ Widget(decl) # "radio" => dev' = dev
      OBVIOUS
    <2>1. page.step = "open" /\ UNCHANGED <<decl, app>>
      BY DEF Save
    <2>2. page.fromDefault /\ Widget(decl) # "radio" => dev' = dev
      BY <2>1, SerializedType DEF Save
    <2>3. ASSUME page.fresh, page.current # Null
          PROVE  /\ Kept(Original) => Visible(Resolved'.text) = Visible(page.current)
                 /\ Number(Original) => SameNumber(Resolved'.text, Original)
      <3>1. page.current = Resolved.text /\ page.current \in {None} \cup Text
        BY <2>1, <2>3 DEF FieldOK, FieldTypes, PageType, OpenOK
      <3>2. CASE Serialized = None
        <4>1. dev' = dev
          BY <3>2 DEF Save
        <4>2. Resolved' = Resolved
          BY <2>1, <4>1 DEF Resolved, Holds
        <4>3. Number(Original) => page.current = Original /\ page.current # None
          BY DEF Original, Number, JsonNumber, Empty
        <4> QED BY <3>1, <4>2, <4>3 DEF SameNumber
      <3>3. CASE Serialized # None
        <4>1. Serialized = Original /\ Original \in Text /\ decl.encrypted \in BOOLEAN
          BY <2>1, <3>3, SerializedType DEF FieldOK, FieldTypes, Decl
        <4>2. dev' = [value |-> Decoded(Original), enc |-> decl.encrypted]
          BY <3>3, <4>1 DEF Save
        <4>3. Original # Null
          BY <2>3 DEF Original, Empty, Null
        <4>4. Resolved'.text = Decoded(Original).text
          BY <4>1, <4>2, <4>3, StoredIsResolved
        <4>5. Visible(Original) = Visible(page.current)
          BY <3>1, FieldAssumption DEF Original, Visible, Empty, Text
        <4> QED BY <4>1, <4>4, <4>5, DecodedText DEF Kept
      <3> QED BY <3>2, <3>3
    <2>4. Number(Original) => page.current # Null
      BY DEF Original, Number, JsonNumber, Null, Empty
    <2> QED BY <2>2, <2>3, <2>4
  <1> QED BY <1>1, FieldInvariant, PTL DEF Spec, UntouchedSaveSame

---------------------------------------------------------------------------
(* The command line                                                        *)

(* cmd_show walks _fetch_scope's answers, resolve_value the records: they  *)
(* name the same value where no record is empty, unreadable or misplaced.  *)
LEMMA ShowsWhatThePageShows == ShowMatchesPage
  <1> SUFFICES ASSUME \A rec \in {dev, app} : rec = None \/ (rec.value # Str(Empty) /\ ~FetchError(rec)),
                      dev # None => "device" \in decl.scope,
                      app # None => "app" \in decl.scope
               PROVE  Effective = Resolved.text
    BY DEF ShowMatchesPage
  <1>1. (FetchScope("device", dev) = "set") = Holds(dev)
    BY DEF FetchScope, FetchError, Holds
  <1>2. (FetchScope("app", app) = "set") = Holds(app)
    BY DEF FetchScope, FetchError, Holds
  <1>3. CASE Holds(dev)
    BY <1>1, <1>3 DEF Effective, Resolved
  <1>4. CASE ~Holds(dev) /\ Holds(app)
    BY <1>1, <1>2, <1>4 DEF Effective, Resolved
  <1>5. CASE ~Holds(dev) /\ ~Holds(app)
    BY <1>1, <1>2, <1>5 DEF Effective, Resolved
  <1> QED BY <1>3, <1>4, <1>5

(* coerce_value's rules are within is_off_spec's, and cmd_show's chain is  *)
(* the page's.                                                             *)
THEOREM CliMatchesPage == Spec => []CliAndPageAgree
  <1>1. FieldOK => CliAndPageAgree
    <2> SUFFICES ASSUME FieldOK PROVE CliSetInSpec
      BY ShowsWhatThePageShows DEF CliAndPageAgree
    <2>1. decl \in Decl
      BY DEF FieldOK, FieldTypes
    <2> QED BY <2>1, CoercedIsInSpec, FieldAssumption DEF CliSetInSpec
  <1> QED BY <1>1, FieldInvariant, PTL
=============================================================================
