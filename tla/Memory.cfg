CONSTANTS
  m1 = m1
  m2 = m2
  m3 = m3
  Callers = {c1}
  Sources = {m1, m2, m3}
  Words = {"dvl"}
  Notes <- MCNotes
  Actions <- MCActions
  Trusts = {"agent_generated", "verified_procedure"}
  MinTrust = "simulation_episode"
  TopKs = {1, 2}
SYMMETRY MCSymmetry
SPECIFICATION Spec
INVARIANTS
  RecordedEntriesSurvive
  MissedOnlyByLimit
  LostOnlyToTrust
