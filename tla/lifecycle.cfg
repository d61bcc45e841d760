\* Four services share a bank; the program starts three times, nested.
SPECIFICATION Spec
CONSTANTS
    NumServices = 4
    MaxStarts = 3
INVARIANTS
    TypeOK
    BankServes
