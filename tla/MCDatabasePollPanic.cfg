CONSTANTS
  m1 = m1
  m2 = m2
  r1 = r1
  mysql = mysql
  redis = redis
  Databases <- MCDatabases
  Types <- MCTypes
  TypeOf <- MCTypeOf
  Limit <- MCLimit
  MaxPolls = 1
SPECIFICATION Spec
INVARIANTS
  NoSendAfterClose
CHECK_DEADLOCK FALSE
