SPECIFICATION Spec
CONSTANTS
  Tx = {"c"}
  ValidHeight <- MCValidHeight
  TxCacheHeight = 2
  CrashAllowed = FALSE
  MaxHeight = 3
  MaxBlockTx = 1
INVARIANT PoolIncludable
