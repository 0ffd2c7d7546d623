SPECIFICATION Spec
CONSTANTS
  Rooms = {room1, room2}
  Orders = {order1}
  Coupons = {coupon1, coupon2}
  Transfers = {transfer1, transfer2}
  Handlers = {h1, h2}
  NoRoom = noRoom
  NoOrder = noOrder
  NoCoupon = noCoupon
  OrderTTL = 1
  CouponTTL = 2
  IdempotencyTTL = 2
  MaxTime = 2
  Extra = 1
  Redeems = 2
  Failures = 1
SYMMETRY Interchangeable
INVARIANTS
  TypeOK
  GrantedOnce
  GrantedPerTransfer
  StatusIsTruthful
  AnsweredIsGranted
  CouponBoostsOnce
  CouponsCanBeShown
  HashesExpire
CHECK_DEADLOCK FALSE
