SPECIFICATION Spec
CONSTANTS
  tab1 = tab1
  tab2 = tab2
  x1 = x1
  x2 = x2
  Forms = {tab1}
  AttachFields = {"securities", "people"}
  Items = {x1, x2}
  Blank = Blank
  None = None
  MaxEdits = 0
PROPERTY UntouchedIsKept
