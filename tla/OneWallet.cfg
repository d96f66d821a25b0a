SPECIFICATION LocksSpec
CONSTANTS
    Transactions = {t1, t2, t3}
    Wallets = {1}
    Kinds = {"model request", "human request", "model end", "human release",
             "expire executions", "sweep", "grant"}
SYMMETRY Symmetry
INVARIANT NoDeadlock
