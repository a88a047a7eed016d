SPECIFICATION EditorSpec
CONSTANTS
  t1 = t1
  t2 = t2
  c1 = c1
  c2 = c2
  c3 = c3
  u1 = u1
  u2 = u2
  n1 = n1
  n2 = n2
  i1 = i1
  l1 = l1
  l2 = l2
  up1 = up1
  tab1 = tab1
  tab2 = tab2
  x1 = x1
  Tabs = {t1, t2}
  Calls = {c1, c2, c3}
  TabOf <- Where
  Users = {u1, u2}
  NoUser = NoUser
  MaxLogins = 2
  Names = {n1, n2}
  Media = {i1}
  MediaFields = {"thumbnail"}
  Lists = {l1, l2}
  Uploads = {up1}
  Empty = Empty
  MaxChanges = 3
  Forms = {tab1, tab2}
  AttachFields = {"securities", "people"}
  Items = {x1}
  Blank = Blank
  None = None
  MaxEdits = 1
INVARIANT IdentityIsTokens
INVARIANT BusyWaits
INVARIANT UploadIsOffered
PROPERTY SessionEndsForCause
PROPERTY SavedAsShown
PROPERTY EditsSurvive
PROPERTY PutReplacesUnlessOvertaken
