--------------------------- MODULE CatalogField ---------------------------
(***************************************************************************)
(* One catalog variable from its declaration to its settings card.  The    *)
(* schema (catalog.py) and the lint (catalog_lint.py) decide which         *)
(* declarations are published; the command line writes values by one set   *)
(* of rules (coerce_value, cmd_set), the page shows and edits them by      *)
(* another (value_resolver.py, widget_renderer.py, touched_state.js,       *)
(* routes_app_form.py), and cmd_show answers which value is in effect.     *)
(*                                                                         *)
(* The declaration stays as published; AppForm has republishing and the    *)
(* interleavings of a submission, KvStore those of the records.  A request *)
(* is one step here.  The variable has a label: without one it is not on   *)
(* the page.                                                               *)
(***************************************************************************)
EXTENDS Integers, Sequences

CONSTANTS
  Decls,   \* declarations an author may try
  Typed,   \* texts an operator or a customer may type
  Native,  \* values a device may store
  None     \* no value, no hint

(* What a value looks like as text: an integer or a float the way Python   *)
(* prints it; a number JSON reads but Python prints otherwise (1.10, 1e5), *)
(* or Python alone reads (+1, 1_000); true or false; null; nothing; a JSON *)
(* string literal, quotes included; any other word.  Numbers are counted   *)
(* in halves, words in characters.                                         *)
Text == [form : {"int", "float", "respelt", "odd", "bool", "null", "empty", "quoted", "word"},
         n : Int]
Num(n) == [form |-> "int", n |-> 2 * n]
Float(n) == [form |-> "float", n |-> n]
Word(n) == [form |-> "word", n |-> n]
Bool(b) == [form |-> "bool", n |-> IF b THEN 1 ELSE 0]
Null == [form |-> "null", n |-> 0]
Empty == [form |-> "empty", n |-> 0]

JsonNumber(t) == t.form \in {"int", "float", "respelt"} \* HTML reads the same
Number(t) == JsonNumber(t) \/ t.form = "odd"
Whole(n) == n % 2 = 0
Printed(n) == [form |-> IF Whole(n) THEN "int" ELSE "float", n |-> n]

(* A stored or declared value: a string, or a native value, with its text. *)
Value == [kind : {"str", "native"}, text : Text]
Str(t) == [kind |-> "str", text |-> t]
Nat_(t) == [kind |-> "native", text |-> t]

(* A record of the store: a value and its encryption flag.                 *)
Stored == [value : Value, enc : BOOLEAN]

Types == {"int", "float", "bool", "string", "enum"}
Bounds == [lo : Int, hi : Int]
Decl == [type : Types,
         scope : (SUBSET {"device", "app"}) \ {{}},
         default : {None} \cup Value,
         origin : {"none", "device", "platform"}, \* default_per_device, _platform
         range : {None} \cup Bounds,
         values : Seq(Text),             \* of `type: enum`
         enum : {None} \cup Seq(Value),  \* the hint
         min : {None} \cup Int, max : {None} \cup Int, step : {None} \cup Int,
         widget : STRING, multiline : BOOLEAN,
         maxLength : {None} \cup Int,
         pattern : {None} \cup (SUBSET Text), \* what it matches
         writeOnly : BOOLEAN, encrypted : BOOLEAN]

ASSUME FieldAssumption ==
  /\ Decls \subseteq Decl
  /\ Typed \subseteq Text /\ Native \subseteq Value
  /\ None \notin Text \cup Value \cup Stored \cup Bounds \cup Int

VARIABLES
  decl,      \* the variable in the operator's catalog file
  published, \* is that file's catalog on the server
  dev,       \* kv:<app>/<device>/<key> and its flag
  app,       \* kv:<app>/public/<key> and its flag
  page       \* the customer's settings card

vars == <<decl, published, dev, app, page>>

Closed == [step |-> "closed", current |-> None, fromDefault |-> FALSE,
           dirty |-> FALSE, chosen |-> None, fresh |-> FALSE]

Init ==
  /\ decl \in Decls
  /\ published = FALSE
  /\ dev = None /\ app = None
  /\ page = Closed

---------------------------------------------------------------------------
(* The declaration                                                         *)

Numeric(d) == d.type \in {"int", "float"}
Entries(s) == {s[i] : i \in DOMAIN s}

(* Python's isinstance, by which a default and an enum entry are checked.  *)
HasType(v, type) ==
  CASE type = "int" -> v.kind = "native" /\ v.text.form \in {"int", "bool"}
    [] type = "float" -> v.kind = "native" /\ v.text.form \in {"int", "float", "bool"}
    [] type = "bool" -> v.kind = "native" /\ v.text.form = "bool"
    [] OTHER -> v.kind = "str"

InRange(d, n) == d.range # None => d.range.lo <= n /\ n <= d.range.hi

(* catalog.py: what load_catalog accepts.                                  *)
SchemaOK(d) ==
  /\ d.default = None \/ d.origin = "none"
  /\ d.range # None => Numeric(d) /\ d.range.lo <= d.range.hi
  /\ (d.type = "enum") = (d.values # <<>>)
  /\ d.default # None =>
       /\ HasType(d.default, d.type)
       /\ d.type = "enum" => d.default.text \in Entries(d.values)
       /\ Number(d.default.text) => InRange(d, d.default.text.n)

EnumOK(d) ==
  d.enum # None =>
    /\ d.type \in {"int", "string"} /\ d.enum # <<>>
    /\ d.type = "int" => d.min = None /\ d.max = None
    /\ \A v \in Entries(d.enum) : HasType(v, d.type)

BoundsOK(d) ==
  /\ d.min # None \/ d.max # None \/ d.step # None => Numeric(d)
  /\ d.min # None /\ d.max # None => d.min <= d.max

WidgetOK(d) ==
  /\ d.widget = "slider" => d.type = "int"
  /\ d.widget = "secret" => d.type = "string"
  /\ d.widget = "radio" => d.type = "bool" \/ d.enum # None

StringOnlyOK(d) ==
  /\ d.multiline \/ d.writeOnly \/ d.pattern # None \/ d.maxLength \notin {None, 0}
       => d.type = "string"
  /\ d.maxLength # None => d.maxLength > 0

(* No error of catalog_lint.py; warnings do not stop a publish.            *)
LintOK(d) == EnumOK(d) /\ BoundsOK(d) /\ WidgetOK(d) /\ StringOnlyOK(d)

Publish ==
  /\ ~published
  /\ SchemaOK(decl) /\ LintOK(decl)
  /\ published' = TRUE
  /\ UNCHANGED <<decl, dev, app, page>>

---------------------------------------------------------------------------
(* The choice and the bounds a declaration gives its widget                *)

(* _enum_choices: the hint, or the values of a `type: enum`.               *)
Choices(d) ==
  IF d.enum \notin {None, <<>>} THEN [i \in DOMAIN d.enum |-> d.enum[i].text]
  ELSE IF d.type = "enum" THEN d.values ELSE <<>>

Lower(d) ==
  IF d.min # None THEN d.min ELSE IF d.range # None THEN d.range.lo ELSE None
Upper(d) ==
  IF d.max # None THEN d.max ELSE IF d.range # None THEN d.range.hi ELSE None

Within(d, n) == (Lower(d) # None => Lower(d) <= n) /\ (Upper(d) # None => n <= Upper(d))

Size(t) ==
  CASE t.form = "empty" -> 0 [] t.form = "int" -> 1 [] t.form = "word" -> t.n
    [] t.form = "quoted" -> t.n + 2 [] OTHER -> 4

FitsString(d, t) ==
  /\ d.maxLength # None => Size(t) <= d.maxLength
  /\ d.pattern # None => t \in d.pattern

(* Mutant: the upper bound is not looked at.                               *)
OffSpecLow(d, t) ==
  /\ t \notin {None, Empty}
  /\ IF Choices(d) # <<>> THEN t \notin Entries(Choices(d))
     ELSE IF Numeric(d) THEN ~Number(t) \/ (Lower(d) # None /\ t.n < Lower(d))
     ELSE d.type = "string" /\ ~FitsString(d, t)

(* is_off_spec: the card carries a warning badge.                          *)
OffSpec(d, t) ==
  /\ t \notin {None, Empty}
  /\ IF Choices(d) # <<>> THEN t \notin Entries(Choices(d))
     ELSE IF Numeric(d) THEN ~Number(t) \/ ~Within(d, t.n)
     ELSE d.type = "string" /\ ~FitsString(d, t)

(* render_widget's dispatch.                                               *)
Widget(d) ==
  CASE d.type = "bool" -> IF d.widget = "radio" THEN "radio" ELSE "truth"
    [] d.type # "bool" /\ Choices(d) # <<>> -> IF d.widget = "radio" THEN "radio" ELSE "select"
    [] Numeric(d) /\ Choices(d) = <<>> ->
         IF d.type = "int" /\ d.widget = "slider" /\ Lower(d) # None /\ Upper(d) # None
         THEN "range" ELSE "number"
    [] OTHER -> IF d.multiline \/ d.widget = "secret" THEN "masked" ELSE "text"

(* A bool has two choices of its own.                                      *)
Options(d) == IF d.type = "bool" THEN <<Bool(TRUE), Bool(FALSE)>> ELSE Choices(d)

(* The step of a number field or a slider: a browser takes 1 where the     *)
(* page gives none, or one that is not positive; a float without a hint is *)
(* given none to hold to.                                                  *)
Step(d) ==
  CASE d.step # None /\ d.step > 0 -> d.step
    [] d.step = None /\ d.type = "float" -> None
    [] OTHER -> 2

(* Steps are counted from the lower bound or else from the value the field *)
(* was rendered with.                                                      *)
Base(d, current) ==
  IF Lower(d) # None THEN Lower(d)
  ELSE IF current # None /\ JsonNumber(current) THEN current.n ELSE 0

OnStep(d, current, n) == Step(d) # None => (n - Base(d, current)) % Step(d) = 0

(* _render_slider's display value.                                         *)
Clamped(d, t) ==
  IF ~Number(t) \/ t.n < Lower(d) THEN Printed(Lower(d))
  ELSE IF t.n > Upper(d) THEN Printed(Upper(d)) ELSE t

(* Where a browser puts a slider that is given n: in its bounds and on its *)
(* step, at the nearest one, the upper of two.                             *)
Snapped(d, n) ==
  LET at == IF n > Upper(d) THEN Upper(d) ELSE n
      below == Lower(d) + ((at - Lower(d)) \div Step(d)) * Step(d)
      above == below + Step(d)
  IN  CASE Upper(d) < Lower(d) \/ n < Lower(d) -> Lower(d)
        [] Upper(d) >= at /\ at >= Lower(d) /\ OnStep(d, None, at) -> at
        [] OTHER -> IF above <= Upper(d) /\ above - at <= at - below THEN above ELSE below

Slid(d, t) ==
  LET n == IF JsonNumber(t) THEN t.n ELSE (Lower(d) + Upper(d)) \div 2
  IN  IF JsonNumber(t) /\ Snapped(d, n) = n THEN t ELSE Printed(Snapped(d, n))

(* What the customer sees before touching anything: the browser selects    *)
(* the first option if the page selects none, puts a slider without a      *)
(* number in the middle and leaves a number field without one empty.       *)
Shown(d, t) ==
  CASE Widget(d) = "radio" -> IF t \in Entries(Options(d)) THEN t ELSE None
    [] Widget(d) \in {"select", "truth"} ->
         IF t \in Entries(Options(d)) THEN t ELSE Options(d)[1]
    [] Widget(d) = "range" -> Slid(d, IF t \in {None, Empty} THEN Empty ELSE Clamped(d, t))
    [] Widget(d) = "number" -> IF t # None /\ JsonNumber(t) THEN t ELSE Empty
    [] Widget(d) \in {"masked", "text"} -> IF d.writeOnly \/ t = None THEN Empty ELSE t

(* What the widget and the browser's validation let the customer submit on *)
(* a page rendered with a current value; a textarea and a password carry   *)
(* no pattern.                                                             *)
Choosable(d, current, t) ==
  CASE Widget(d) \in {"radio", "select", "truth"} -> t \in Entries(Options(d))
    [] Widget(d) = "range" -> t = Printed(t.n) /\ Within(d, t.n) /\ OnStep(d, current, t.n)
    [] Widget(d) = "number" ->
         t = Empty \/ (JsonNumber(t) /\ Within(d, t.n) /\ OnStep(d, current, t.n))
    [] Widget(d) = "masked" -> d.maxLength # None => Size(t) <= d.maxLength
    [] Widget(d) = "text" -> t = Empty \/ FitsString(d, t)

---------------------------------------------------------------------------
(* Values                                                                  *)

(* Mutant: the app's value comes before the device's.                      *)
ResolvedAppFirst ==
  CASE app # None /\ app.value # Nat_(Null) -> [text |-> app.value.text, fromDefault |-> FALSE]
    [] ~(app # None /\ app.value # Nat_(Null)) /\ dev # None /\ dev.value # Nat_(Null) ->
         [text |-> dev.value.text, fromDefault |-> FALSE]
    [] OTHER -> [text |-> IF decl.default = None THEN None ELSE decl.default.text,
                 fromDefault |-> decl.default # None]

Holds(rec) == rec # None /\ rec.value # Nat_(Null)

(* resolve_value: device, app, default; a stored null is no value.         *)
Resolved ==
  CASE Holds(dev) -> [text |-> dev.value.text, fromDefault |-> FALSE]
    [] ~Holds(dev) /\ Holds(app) -> [text |-> app.value.text, fromDefault |-> FALSE]
    [] OTHER -> [text |-> IF decl.default = None THEN None ELSE decl.default.text,
                 fromDefault |-> decl.default # None]

Put(scope, rec) ==
  /\ IF scope = "device" THEN dev' = rec /\ app' = app ELSE app' = rec /\ dev' = dev
  /\ page' = [page EXCEPT !.fresh = FALSE]
  /\ UNCHANGED <<decl, published>>

(* The words _TRUE and _FALSE add to true and false, but 1 and 0, are left *)
(* out.                                                                    *)
Truth(t) == t.form = "bool" \/ t \in {Num(0), Num(1)}

(* int() or float() reads it.                                              *)
Reads(type, t) ==
  IF type = "int" THEN t.form \in {"int", "odd"} /\ Whole(t.n) ELSE Number(t)

(* Mutant: the range is not looked at.                                     *)
CoercesAny(d, t) ==
  CASE Numeric(d) -> Reads(d.type, t)
    [] d.type = "bool" -> Truth(t)
    [] d.type = "enum" -> t \in Entries(d.values)
    [] d.type = "string" -> TRUE

(* coerce_value: what it accepts ...                                       *)
Coerces(d, t) ==
  CASE Numeric(d) -> Reads(d.type, t) /\ InRange(d, t.n)
    [] d.type = "bool" -> Truth(t)
    [] d.type = "enum" -> t \in Entries(d.values)
    [] d.type = "string" -> TRUE

(* ... and what it makes of it.                                            *)
Coerced(d, t) ==
  CASE d.type = "int" -> Nat_([form |-> "int", n |-> t.n])
    [] d.type = "float" -> Nat_(Float(t.n))
    [] d.type = "bool" -> Nat_(Bool(t.n # 0))
    [] d.type \in {"enum", "string"} -> Str(t)

(* stra2us set: by the file's schema and range, not by its hints.          *)
CliSet(scope, t) ==
  /\ SchemaOK(decl) /\ scope \in decl.scope /\ Coerces(decl, t)
  /\ Put(scope, [value |-> Coerced(decl, t), enc |-> decl.encrypted])

(* stra2us set --unset                                                     *)
CliUnset(scope) ==
  /\ SchemaOK(decl) /\ scope \in decl.scope
  /\ Put(scope, [value |-> Str(Empty), enc |-> decl.encrypted])

(* stra2us put: any text, flag and scope.                                  *)
CliPut(scope, t, enc) == Put(scope, [value |-> Str(t), enc |-> enc])

(* stra2us delete                                                          *)
CliDelete(scope) == Put(scope, None)

(* The device stores what it likes under its own path.                     *)
DeviceWrite(v) == Put("device", [value |-> v, enc |-> FALSE])

(* client.get: a flagged record that is not a string is answered 500.      *)
FetchError(rec) == rec # None /\ rec.enc /\ rec.value.kind # "str"

(* _fetch_scope; the cell of a scope the variable does not have is n/a.    *)
FetchScope(scope, rec) ==
  IF scope \notin decl.scope THEN "n/a"
  ELSE IF FetchError(rec) THEN "error"
  ELSE IF ~Holds(rec) \/ rec.value = Str(Empty) THEN "unset" ELSE "set"

(* cmd_show for a device: the value it calls effective.                    *)
Effective ==
  CASE FetchScope("device", dev) = "set" -> dev.value.text
    [] FetchScope("device", dev) # "set" /\ FetchScope("app", app) = "set" -> app.value.text
    [] OTHER -> IF decl.default = None THEN None ELSE decl.default.text

---------------------------------------------------------------------------
(* The page                                                                *)

OpenPage ==
  /\ page.step = "closed" /\ published
  /\ page' = [step |-> "open", current |-> Resolved.text, fromDefault |-> Resolved.fromDefault,
              dirty |-> FALSE, chosen |-> None, fresh |-> TRUE]
  /\ UNCHANGED <<decl, published, dev, app>>

Edit(t) ==
  /\ page.step = "open" /\ Choosable(decl, page.current, t)
  /\ page' = [page EXCEPT !.dirty = TRUE, !.chosen = t]
  /\ UNCHANGED <<decl, published, dev, app>>

(* The browser stops a form that holds an untouched number out of bounds   *)
(* or off its step, or a text off its pattern; only typed text can be too  *)
(* long.                                                                   *)
Submittable ==
  LET t == Shown(decl, page.current) IN
    ~page.dirty /\ t # Empty =>
      /\ Widget(decl) = "number" => Within(decl, t.n) /\ OnStep(decl, page.current, t.n)
      /\ Widget(decl) = "text" /\ decl.pattern # None => t \in decl.pattern

Original == IF page.current = None THEN Empty ELSE page.current

(* Mutant: an untouched field is submitted as it is displayed.             *)
SerializedShown ==
  CASE page.dirty -> page.chosen
    [] ~page.dirty /\ Widget(decl) = "radio" ->
         IF Shown(decl, page.current) = None THEN None ELSE Original
    [] OTHER -> IF decl.writeOnly \/ page.fromDefault THEN None ELSE Shown(decl, page.current)

(* serialize: None is left out of the payload.  An untouched radio group   *)
(* is submitted whenever one of its options is checked.                    *)
Serialized ==
  CASE page.dirty -> page.chosen
    [] ~page.dirty /\ Widget(decl) = "radio" ->
         IF Shown(decl, page.current) = None THEN None ELSE Original
    [] OTHER -> IF decl.writeOnly \/ page.fromDefault THEN None ELSE Original

(* _decode_form_value: json.loads, or the string itself.                   *)
Decoded(t) ==
  CASE t.form \in {"int", "float", "bool", "null"} -> Nat_(t)
    [] t.form = "respelt" -> Nat_(Float(t.n))
    [] t.form = "quoted" -> Str(Word(t.n))
    [] OTHER -> Str(t)

(* POST /app/<app>/<device>, whatever the variable's scope.                *)
Save ==
  /\ page.step = "open" /\ Submittable
  /\ dev' = IF Serialized = None THEN dev
            ELSE [value |-> Decoded(Serialized), enc |-> decl.encrypted]
  /\ page' = Closed
  /\ UNCHANGED <<decl, published, app>>

Close ==
  /\ page.step = "open"
  /\ page' = Closed
  /\ UNCHANGED <<decl, published, dev, app>>

---------------------------------------------------------------------------

Cli ==
  \E scope \in {"device", "app"} :
    \/ CliUnset(scope) \/ CliDelete(scope)
    \/ \E t \in Typed : CliSet(scope, t) \/ \E enc \in BOOLEAN : CliPut(scope, t, enc)

Customer == OpenPage \/ Save \/ Close \/ \E t \in Typed : Edit(t)

Next == Publish \/ Cli \/ Customer \/ \E v \in Native : DeviceWrite(v)

Spec == Init /\ [][Next]_vars

---------------------------------------------------------------------------
(* Properties                                                              *)

(* A number the widget can hold: one HTML reads, and on its step.          *)
Holdable(d, t) ==
  Widget(d) \in {"number", "range"} => JsonNumber(t) /\ OnStep(d, t, t.n)

(* The page's two pure halves, is_off_spec and render_widget, agree but on *)
(* the step and the spelling of numbers, which is_off_spec does not look   *)
(* at.  Apart from these a value that the widget does not show as it is    *)
(* carries the badge, a bool stored as a number and a write-only field     *)
(* excepted; and an untouched form is held up by the browser only over a   *)
(* value with a badge.  (Such a value is not submitted:                    *)
(* fr_catalog_app_ui.md says of it "If the customer doesn't touch it, the  *)
(* original 129 is what gets written on form submit".)                     *)
ShownOrFlagged ==
  page.step = "open" /\ page.current \notin {None, Empty} /\ ~OffSpec(decl, page.current)
  /\ Holdable(decl, page.current) =>
    /\ Shown(decl, page.current) = page.current \/ decl.writeOnly \/ decl.type = "bool"
    /\ ~page.dirty => Submittable

SameNumber(a, b) == a # None /\ Number(a) /\ a.n = b.n

Kept(t) == Decoded(t).text = t

(* What a customer picks is what the next page shows, whatever lies below  *)
(* in the chain: the text itself where json.loads and Python's print give  *)
(* it back, and for a numeric variable the same number in any spelling.    *)
(* It carries no badge unless a textarea or a password is off its pattern  *)
(* or a text was stored as another one.  The word null is stored as no     *)
(* value.                                                                  *)
EditedSaveShown ==
  [][Save /\ page.dirty /\ page.chosen # Null =>
       /\ ~Resolved'.fromDefault
       /\ Kept(page.chosen) => Resolved'.text = page.chosen
       /\ Numeric(decl) /\ Number(page.chosen) => SameNumber(Resolved'.text, page.chosen)
       /\ OffSpec(decl, Resolved'.text) =>
            \/ Widget(decl) = "masked" /\ decl.pattern # None
            \/ ~Numeric(decl) /\ ~Kept(page.chosen)]_vars

Visible(t) == IF t = Empty THEN None ELSE t

(* An untouched save leaves the page as it was, clamped and snapped        *)
(* sliders, unset fields and masked ones included, unless the records      *)
(* changed meanwhile: the same text where decoding gives it back, and for  *)
(* a numeric variable the same number.  And it "doesn't silently           *)
(* materialize per-device overrides" from the catalog's default            *)
(* (page_renderer.py).  It does for a radio group: its branch of           *)
(* serialize() does not look at data-from-default.                         *)
UntouchedSaveSame ==
  [][Save /\ ~page.dirty =>
       /\ page.fresh /\ page.current # Null /\ Kept(Original) =>
            Visible(Resolved'.text) = Visible(page.current)
       /\ page.fresh /\ Numeric(decl) /\ Number(Original) => SameNumber(Resolved'.text, Original)
       /\ page.fromDefault /\ Widget(decl) # "radio" => dev' = dev]_vars

(* What coerce_value accepts for a variable with no hint but its `range`   *)
(* is never off spec on the page.                                          *)
NoHints(d) == d.enum = None /\ d.min = None /\ d.max = None /\ d.maxLength = None /\ d.pattern = None
CliSetInSpec ==
  SchemaOK(decl) /\ NoHints(decl) =>
    \A t \in Typed : Coerces(decl, t) => ~OffSpec(decl, Coerced(decl, t).text)

(* cmd_show and resolve_value name the same value unless a record holds an *)
(* empty string (--unset), cannot be read by the client, or lies where the *)
(* scope says none can.                                                    *)
ShowMatchesPage ==
  (\A rec \in {dev, app} : rec = None \/ (rec.value # Str(Empty) /\ ~FetchError(rec)))
  /\ (dev # None => "device" \in decl.scope) /\ (app # None => "app" \in decl.scope)
    => Effective = Resolved.text

(* The command line and the page are different code for the same rules and *)
(* the same chain of values: cli.py's coerce_value and cmd_show,           *)
(* touched_state.js's is_off_spec and value_resolver.py.                   *)
CliAndPageAgree == CliSetInSpec /\ ShowMatchesPage
=============================================================================
