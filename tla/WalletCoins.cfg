\* Reorganizations of two blocks and connections that fail at any point, with
\* payments, orphans, repairs and restarts between and during them.
SPECIFICATION Spec
CONSTANTS
  Tx <- MCTx
  Vin <- MCVin
  NOut <- MCNOut
  Mine <- MCMine
  CoinBase = {"g"}
  CoinStake = {"s"}
  Maturity = 1
  Margin = 1
  MaxHeight = 4
  MaxFork = 2
INVARIANTS OfferedUnspent NoCoinLost WalletComplete
PROPERTY RepairRestores
