SPECIFICATION MCSpec
CONSTANTS
  Plan <- MCPlan
  r1 = r1
  r2 = r2
  Reqs = {r1, r2}
  Configs <- MCConfigs
  Wants <- MCWants
  UserBinds <- MCUserBinds
  MaxTrouble = 1
INVARIANTS NothingTaken LoneRequestTakes
PROPERTIES UserLinesKept
SYMMETRY ReqSymmetry
