\* Mapped accounts, no faults.
SPECIFICATION FairSpec
CONSTANTS
    failed = failed  captured = captured
    acme = acme  zeta = zeta  demo = demo
    r1 = r1  r2 = r2  r3 = r3
    Absent = Absent
    Events = {failed, captured}
    Accounts = {acme, zeta}
    Requests = {r1, r2, r3}
    EventOf <- MCEventOf
    AccountOf <- TwoAccounts
    Target = {failed}
    Provisioned = {acme, zeta}
    DemoAccount = Absent
    MaxFaults = 0
\* Deliveries are bounded: when all are over the system rests.
CHECK_DEADLOCK FALSE
PROPERTIES
    DeliveredIsProcessed
