\* A manager and an account that is created beside her, on two browsers.
SPECIFICATION Spec
CONSTANTS
    ann = ann
    bob = bob
    c1 = c1
    c2 = c2
    um = um
    pw1 = pw1
    pw2 = pw2
    User = {ann, bob}
    Legacy = {ann}
    DemoAdmin = ann
    DemoOperator = {bob}
    DemoEditor = {bob}
    Client = {c1, c2}
    Module = {um}
    UserManagement = um
    Password = {pw1, pw2}
    Submitted <- MCSubmitted
    MaxVersion = 2
    Omitted = Omitted
    NoPassword = NoPassword
    NoToken = NoToken
    NoJob = NoJob
SYMMETRY MCSymmetry
INVARIANTS
    AccountTypeOK
    AcceptedUnderPassword
PROPERTIES
    ManagerRemains
    RefusedStaysRefused
