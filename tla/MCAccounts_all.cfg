SPECIFICATION Spec
CONSTANTS
    c1 = c1  c2 = c2  c3 = c3  c4 = c4  ann = ann  mail1 = mail1  mail2 = mail2
    secret = secret  other = other
    Calls = {c1, c2, c3, c4}
    Name = {ann}
    Mail = {mail1, mail2}
    Password = {secret, other}
    Requests <- AllRequests
    NoMail = NoMail  NoUser = NoUser
SYMMETRY Interchangeable
INVARIANTS AccountsUnique CompaniesWhole RefusalsHaveReason SessionsOfTheirOwner
    InformationForLeaders
