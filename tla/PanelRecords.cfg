\* Two orders of one client, so that a renewal or a refund can fall between the
\* steps of another order, and two refunders, so that both can work on one order;
\* two addresses and a limit of one; one row of each kind that may capture another,
\* and two saves that have committed and not applied.
CONSTANTS
    MaxOrders = 2
    Refunders = {bot, api}
    Bot = bot
    Volume0 = 1
    Traffics = {1}
    NoTariff = NoTariff
    MaxUse = 2
    MaxEdits = 1
    MaxErrors = 1
    Addresses = {a1, a2}
    Limit = 1
    MaxIPFaults = 1
    MaxIPClears = 1
    Outbounds = {ro}
    Endpoints = {re}
    InboundRows = {ri}
    ServiceRows = {rs}
    Blob = blob
    Tags = {"a", "b"}
    MaxPlans = 2
    MaxSaves = 4

SPECIFICATION RecordsSpec

SYMMETRY IMSymmetry

INVARIANTS
    BooksMatchOrders
    MoneyComesFirst
    PaymentIsNotDropped
    IMAddressesKept
    TCCoreIsFresh

\* The inputs run out.
CHECK_DEADLOCK FALSE
