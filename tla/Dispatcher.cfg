SPECIFICATION FairSpec
CONSTANTS
    a = a
    b = b
    x = x
    y = y
    Modules = {a, b}
    Events = {x, y}
    Subscriptions <- Subscribed
    Endpoints <- Order
    Capacity = 1
    Responsive = {a}
    MaxPublished = 3
    MaxEnds = 1
    MaxCrashes = 1
PROPERTY ActsAsBus
PROPERTY NotHeldUp
