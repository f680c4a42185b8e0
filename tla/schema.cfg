SPECIFICATION Spec
CONSTANTS
  Null = Null
  Rows <- OneTrader
INVARIANTS TypeOK LedgerTraced MigrationsSucceed
PROPERTIES LedgerKept AccountsArePermanent
CHECK_DEADLOCK FALSE
