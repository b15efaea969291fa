SPECIFICATION Spec
CONSTANTS
  None = None
  Decls <- AllDecls
  Typed <- SmallTyped
  Native <- SmallNative
INVARIANTS  CliAndPageAgree
PROPERTIES EditedSaveShown UntouchedSaveSame
