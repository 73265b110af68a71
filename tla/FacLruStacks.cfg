CONSTANTS
    Time = {0, 1, 2}
    MAX_ID = 3
    Reg = {"f0", "f1"}
    FlagOf <- MCFlag
    Text = {7}
    Data = {2, 3, 4}
    STORE_HASH_SIZE = 2
    Value = {0, 1}
    MAX_ALLOC = 2
    A = 0
    B = 2
    C = 3
    N = 1
    REUSE = 1
    SaLine = {0, 1, 2, 4, 6, 8}
    DmLine = {0, 1, 2, 3, 4, 8, 9, 10, 12, 16}
    FaSetup <- MCFaSetup
    DUMMY = 1
    HASHNO = 4
    Code = {2, 4}
    Branch = {4}
    ENTRY = 2
    SS_INST_SIZE = 2
    Mem = {0, 6}
    Class <- MCClass
    Range <- MCRange
    MAX_BREAK = 2
    MAX_INSN = 4
    TextBlock = {4, 6}
    DataBlock = {0, 1, 2, 3}
    Assoc <- MCAssoc
    Scale <- MCScale
    Name = {1, 2}
    SymAddr = {0, 1, 2, 4}
    END <- MCEnd
    MAX_SYMS = 3
SPECIFICATION Spec
INVARIANT StacksFit
