SPECIFICATION Spec
CONSTANTS
  v1 = v1
  v2 = v2
  v3 = v3
  t1 = t1
  a = a
  b = b
  shot = shot
  Videos = {v1, v2, v3}
  Images = {t1}
  NameOf <- MCNameOf
  Listed = {a, b}
  Order <- MCAnyOrder
  Splits = {"train", "valid"}
  Sightings = {"nothing", "other", "person"}
  Length = 1
  MaxTrainings = 2
SYMMETRY Twins
INVARIANTS TypeOK VideoAccounted OneSplitPerFrame LabelsNamePlayers
CHECK_DEADLOCK FALSE
