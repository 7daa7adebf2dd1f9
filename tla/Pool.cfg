\* Three accounts, five contracts: every contract may find the pool empty,
\* wait, be handed a slot by a release, and release out of order.
CONSTANTS
    NumAccounts = 3
    Callers = {c1, c2, c3, c4, c5}
    NoSlot = NoSlot
SPECIFICATION OrderFairSpec
INVARIANTS SlotsAreSound
PROPERTIES RoundRobin ImplementsAllocator WaiterServed
