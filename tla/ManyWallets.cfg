SPECIFICATION LocksSpec
CONSTANTS
    Transactions = {t1, t2}
    Wallets = {1, 2}
    Kinds = {"human request"}
SYMMETRY Symmetry
INVARIANT NoDeadlock
