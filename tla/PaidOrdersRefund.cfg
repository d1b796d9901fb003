\* No error and no change of the tariff: two orders that are paid in the other
\* order than they were created in.
CONSTANTS
    MaxOrders = 2
    Refunders = {bot, api}
    Bot = bot
    Volume0 = 1
    Traffics = {1}
    NoTariff = NoTariff
    MaxUse = 2
    MaxEdits = 0
    MaxErrors = 0

SPECIFICATION FairSpec

PROPERTY OlderRefundKeepsWindow
