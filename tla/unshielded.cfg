SPECIFICATION Spec
CONSTANTS
    k1 = k1
    k2 = k2
    Utxos = {1, 2, 3, 4}
    Owner <- MCOwner
    Ttls = {2, 3}
    Second = 2
    Segments = {2, 65534}
    MaxRandom = 3
    NoSig = NoSig
    NoTx = NoTx
INVARIANTS
    TypeOK
    SignaturesAgree
    SerializedVerifies
