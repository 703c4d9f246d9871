CONSTANTS
  home = home
  list = list
  detail = detail
  Pages = {home, list, detail}
  NoPage = NoPage
  NumSteps = 3
  Route <- ThreePages
  Attached = {1, 2, 3}
  MaxActs = 4
SPECIFICATION TourSpec
PROPERTIES NextOpensNextPage
CHECK_DEADLOCK FALSE
