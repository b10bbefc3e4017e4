SPECIFICATION Spec
CONSTANTS
  Pages <- MCPages
  Modals = {m1, m2}
  Dismissible = {m1, m2}
  MaxOpen = 3
  MaxOpenNav = 1
  MaxClosing = 3
  MaxNavOverlays = 2
  NavKinds = {"plain", "fixed", "missing"}
  Menus = {d1, d2}
  Options = 2
  DisabledSets = {{}, {1}}
  Panels = 3
  Toasts = {t1}
  DisplayTicks = 2
  MaxTouches = 3
  MaxFingers = 2
  WindowWidth = 12
  TipWidth = 5
  TipShift = 2
  Slides = 3
  Sections = 4
  WindowHeight = 2
  Positions = {0, 2, 3, 5}
  ImageExcess = 5
  Months <- MCMonths
  Formats <- MCFormats
  Week = 3
  Rows = 2
  Today = 4
  DefaultTheme = TRUE
  PickerLimits <- MCPickerLimits
  CalendarLimits <- MCCalendarLimits
  Mins = {3}
  Maxs = {6}
  Units <- MCUnits
  MaxUnits = 2
  MaxTimers = 2
  Images = 3
  Dim = 3
  MaxOffset = 6
  MaxFrames = 2
INVARIANTS
  OverlaysLeaveNothing ScrollLockHasOwner OneMenuOpen SelectionAgrees ShownAsAsked
  PointersAnswered ScrollAnswered TextReadable
PROPERTY WidgetsSettle
CHECK_DEADLOCK FALSE
