SPECIFICATION Spec
CONSTANTS
  Ident <- MCIdent
  Number <- MCNumber
  Text <- MCText
  Garbage = {"@", "@v"}
  IntValue <- MCIntValue
  Letters = {"a"}
  Digits = {"1"}
  Blanks = {" "}
  Marks = {".", "=", "-", ";"}
  Inside <- MCInside
  Endings <- MCEndings
  Variables = {"@v"}
  GlobMatches <- MCGlobMatches
  PromFunctions = {"rate"}
  NamedTables <- ExtractTableNames
  NamedColumns <- ExtractColumnRefs
  Verdict <- Validate
  LimitAdded <- AutoLimit
  Jobs <- MCJobs
  Env <- MCEnv
  MaxRows = "9"
  Answers <- MCAnswers
INVARIANTS
  LexedWhole
  ParsedAsWritten
  ExplainSeesThrough
  LimitedOnce
  ShownIsOwn
  PolicyAdds
  KeysGlobbed
CHECK_DEADLOCK FALSE
