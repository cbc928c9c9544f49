CONSTANTS
  severe = severe  interrupted = interrupted
  Fault = {severe, interrupted}
  Detected = {severe}
  Severe = {severe}
  Watcher = {cron, page}
  Cron = cron
  NoFault = NoFault
  MaxIncidents <- Recurring
SPECIFICATION Spec
INVARIANTS
  TypeOK
  EarlierAreOver
PROPERTIES
  KeepsIncidentLog
  RecordsCatchUp
