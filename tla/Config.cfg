SPECIFICATION Spec
CONSTANTS
  Key = {theme, refresh_time, display_mode}
  theme = theme
  refresh_time = refresh_time
  display_mode = display_mode
  Strict = {display_mode}
  Value = {on, follow}
  on = on
  follow = follow
  On = on
  Follow = follow
  Bad = Bad
  None = None
  Packaged = on
  Platforms = {TRUE, FALSE}
  MaxLines = 2
  MaxFaults = 1
INVARIANTS TypeOK ChoiceIsStored CheckedIsChosen
PROPERTIES StoredUnlessReplacing OthersSurvive
