\* Racing deliveries and first tenants, with faults and DEMO_MODE.
SPECIFICATION Spec
CONSTANTS
    failed = failed  captured = captured
    acme = acme  zeta = zeta  demo = demo
    r1 = r1  r2 = r2  r3 = r3
    Absent = Absent
    Events = {failed, captured}
    Accounts = {acme, zeta, demo}
    Requests = {r1, r2, r3}
    EventOf <- MCEventOf
    AccountOf <- TwoAccounts
    Target = {failed, captured}
    Provisioned = {}
    DemoAccount = demo
    MaxFaults = 2
SYMMETRY Redeliveries
\* Deliveries are bounded: when all are over the system rests.
CHECK_DEADLOCK FALSE
INVARIANTS
    TypeOK
    AtMostOneEffect
    AcceptedOnce
    EffectInMappedTenant
