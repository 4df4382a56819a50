CONSTANTS
    addr1 = addr1
    addr2 = addr2
    addr3 = addr3
    inj = inj
    amt1 = amt1
    amt2 = amt2
    None = None
    Addresses <- MCAddresses
    Denoms <- MCDenoms
    Amounts <- MCAmounts
SPECIFICATION Spec
INVARIANTS
    TypeOK
    FormsCarryParams
