SPECIFICATION IngestSpec
CONSTANTS
  uses = uses
  runs = runs
  likes = likes
  must = must
  f1 = f1
  f2 = f2
  t1 = t1
  t2 = t2
  blank = blank
  Ids = {1, 2}
  Names = {1, 2, 3}
  SameObject = {}
  SameFamily <- Alike
  Relations = {uses, runs, likes, must}
  NotRelations = {must}
  FamilyOf <- Family
  Facts = {f1, f2}
  Extractions <- Sessions
  HumanFacts <- ByHand
  MaxEdges = 3
  MaxTime = 1
  None = None
  doc1 = doc1
  doc2 = doc2
  Docs = {doc1, doc2}
  Texts = {t1, t2, blank}
  Blank = blank
  Yield <- Yields
  Unreadable = {}
  Ingesters = {sweeper, request}
  Sweeper = sweeper
  MaxDocs = 1
  MaxEdits = 1
  MaxUpsets = 1
SYMMETRY Interchangeable
INVARIANT ReExtractionSaysNothingNew
PROPERTIES OthersClaimsSurvive RetractedWithItsClaim NamesStayKnown
CHECK_DEADLOCK FALSE
