------------------------------ MODULE MCField ------------------------------
(***************************************************************************)
(* Small instances of CatalogField: one declaration for every widget and   *)
(* every kind of hint, with values inside and outside its rules, and       *)
(* declarations the schema or the lint refuses.                            *)
(***************************************************************************)
EXTENDS CatalogField, TLC

Plain(type) ==
  [type |-> type, scope |-> {"device", "app"}, default |-> None, origin |-> "none",
   range |-> None, values |-> <<>>, enum |-> None, min |-> None, max |-> None, step |-> None,
   widget |-> "none", multiline |-> FALSE, maxLength |-> None, pattern |-> None,
   writeOnly |-> FALSE, encrypted |-> FALSE]

(* Bounds and steps count halves, as texts do.                             *)
OneToThree == [lo |-> 2, hi |-> 6]
Respelt(n) == [form |-> "respelt", n |-> n]
Odd(n) == [form |-> "odd", n |-> n]
Quoted(n) == [form |-> "quoted", n |-> n]
IntEnum == <<Nat_(Num(1)), Nat_(Num(5))>>

Good == {
  [Plain("int") EXCEPT !.range = OneToThree, !.default = Nat_(Num(2))],
  [Plain("int") EXCEPT !.min = 2, !.max = 6, !.step = 4, !.widget = "slider", !.encrypted = TRUE],
  [Plain("int") EXCEPT !.step = 4],
  [Plain("float") EXCEPT !.min = 3, !.scope = {"app"}],
  [Plain("float") EXCEPT !.step = 0, !.default = Nat_(Float(3))],
  [Plain("int") EXCEPT !.enum = IntEnum, !.default = Nat_(Num(1))],
  [Plain("int") EXCEPT !.enum = IntEnum, !.default = Nat_(Num(5)), !.widget = "radio"],
  [Plain("bool") EXCEPT !.default = Nat_(Bool(FALSE))],
  [Plain("bool") EXCEPT !.widget = "radio", !.scope = {"device"}],
  [Plain("enum") EXCEPT !.values = <<Word(3), Respelt(2)>>, !.default = Str(Word(3))],
  [Plain("string") EXCEPT !.maxLength = 2, !.default = Str(Word(1))],
  [Plain("string") EXCEPT !.pattern = {Num(1), Respelt(2)}, !.encrypted = TRUE],
  [Plain("string") EXCEPT !.widget = "secret", !.writeOnly = TRUE, !.encrypted = TRUE],
  [Plain("string") EXCEPT !.multiline = TRUE, !.pattern = {Word(3)}, !.origin = "device"] }

Bad == {
  [Plain("int") EXCEPT !.range = [lo |-> 6, hi |-> 2]],
  [Plain("int") EXCEPT !.range = OneToThree, !.default = Nat_(Num(5))],
  [Plain("int") EXCEPT !.min = 6, !.max = 2],
  [Plain("int") EXCEPT !.widget = "radio", !.enum = <<>>],
  [Plain("enum") EXCEPT !.widget = "radio"],
  [Plain("int") EXCEPT !.enum = <<Str(Num(1))>>],
  [Plain("string") EXCEPT !.widget = "radio"],
  [Plain("string") EXCEPT !.step = 2],
  [Plain("float") EXCEPT !.widget = "slider", !.range = OneToThree],
  [Plain("bool") EXCEPT !.maxLength = 0],
  [Plain("string") EXCEPT !.default = Str(Word(1)), !.origin = "platform"] }

SmallTyped == {Num(1), Num(5), Respelt(2), Odd(2), Quoted(1), Null, Empty, Word(3)}
SmallNative == {Nat_(Num(5)), Nat_(Float(3)), Nat_(Bool(TRUE)), Nat_(Null)}
AllDecls == Good \cup Bad
=============================================================================
